---- MODULE Spec2Model ----
(***************************************************************************)
(* LottoSmart backend (backend/server.py): the bet ledger, the draw cache, *)
(* the bet checker and the bet generator, as state machines.               *)
(*                                                                         *)
(* Conventions.  A Python list is a sequence.  An Optional value is a     *)
(* sequence of length 0 (None) or 1.  A "dezena" string of the upstream   *)
(* API ("05") is the sequence of its decimal digits (<<0, 5>>) and int()  *)
(* folds it.  The md5 content hash is its pre-image key (collision free). *)
(* uuid4 identifiers are fresh naturals.  Timestamps, strategy and        *)
(* explanation text and the jackpot metadata are opaque pass-through data *)
(* and are left out.                                                      *)
(***************************************************************************)
EXTENDS Integers, Sequences, FiniteSets, TLC

VARIABLES
    bets,      \* db.bets: the stored bet documents, in insertion order
    draws,     \* db[<game>_results]: game -> set of stored draw documents
    nextId,    \* supply of fresh uuid4 identifiers
    pending,   \* save requests between their find_one and their insert_one
    last,      \* the request handled last and its response
    gen        \* input and output of the bet generator or of the analysers

vars == <<bets, draws, nextId, pending, last, gen>>

(***************************** bounds **************************************)
MaxBets == 2        \* stored bets at any time
MaxIds == 3         \* identifiers handed out in one behaviour
MaxConcurso == 2    \* draws the upstream source knows per game
MaxInflight == 2    \* save requests in flight together
TapeLen == 2        \* random values drawn before the generator's tape repeats
Levels == 3         \* distinct values a random draw can take
MaxRecords == 3     \* records of an analysed window after its padding
MaxCount == 2       \* bets asked for in one batch

(************************* Python helpers **********************************)
None == <<>>
Some(x) == <<x>>
IsNone(o) == Len(o) = 0
TheVal(o) == o[1]

Min(a, b) == IF a <= b THEN a ELSE b
Max(a, b) == IF a >= b THEN a ELSE b

Range(s) == {s[i] : i \in DOMAIN s}

\* range(a, b + 1) as a list
Interval(a, b) == [i \in 1..Max(b - a + 1, 0) |-> a + i - 1]

RECURSIVE InsertSorted(_, _)
InsertSorted(x, s) ==
    IF s = <<>> THEN <<x>>
    ELSE IF x < Head(s) THEN <<x>> \o s
    ELSE <<Head(s)>> \o InsertSorted(x, Tail(s))

\* name = expression: the expression is evaluated once and F sees its value
Bind(v, F(_)) == CHOOSE out \in {F(x) : x \in {v}} : TRUE

\* for _ in range(n): s = Step(s)
RECURSIVE Repeat(_, _, _)
Repeat(Step(_), n, s) ==
    IF n <= 0 THEN s
    ELSE IF n = 1 THEN Step(s)
    ELSE Bind(Repeat(Step, n \div 2, s), LAMBDA half : Repeat(Step, n - n \div 2, half))

\* mutant: the list is left in the order given
Unsorted(s) == s

\* sorted(list)
RECURSIVE Sorted(_)
Sorted(s) ==
    IF s = <<>> THEN <<>>
    ELSE Bind(Sorted(Tail(s)), LAMBDA rest : InsertSorted(Head(s), rest))

\* [x for x in s if x in t]
InList(s, t) == SelectSeq(s, LAMBDA x : x \in Range(t))

\* int("05")
RECURSIVE ParseInt(_)
ParseInt(d) == IF d = <<>> THEN 0 ELSE 10 * ParseInt(SubSeq(d, 1, Len(d) - 1)) + d[Len(d)]

\* [int(d) for d in dezenas]
Ints(dezenas) == [i \in DOMAIN dezenas |-> ParseInt(dezenas[i])]

\* the two-digit string the upstream API gives for a number
Dezena(n) == <<n \div 10, n % 10>>
Dezenas(nums) == [i \in DOMAIN nums |-> Dezena(nums[i])]

\* f"{n} acertos"
FmtAcertos(n) ==
    <<"0 acertos", "1 acertos", "2 acertos", "3 acertos", "4 acertos", "5 acertos",
      "6 acertos", "7 acertos", "8 acertos", "9 acertos", "10 acertos", "11 acertos",
      "12 acertos", "13 acertos", "14 acertos", "15 acertos">>[n + 1]

(*************************** configuration *********************************)
LOTTERY_CONFIG ==
    [quina |->
        [max_number |-> 80, numbers_to_pick |-> 5,
         prize_tiers |-> (5 :> "Quina" @@ 4 :> "Quadra" @@ 3 :> "Terno" @@ 2 :> "Duque"),
         min_prize |-> 2],
     dupla_sena |->
        [max_number |-> 50, numbers_to_pick |-> 6,
         prize_tiers |-> (6 :> "Sena" @@ 5 :> "Quina" @@ 4 :> "Quadra" @@ 3 :> "Terno"),
         min_prize |-> 3],
     lotofacil |->
        [max_number |-> 25, numbers_to_pick |-> 15,
         prize_tiers |-> (15 :> "15 acertos" @@ 14 :> "14 acertos" @@ 13 :> "13 acertos"
                          @@ 12 :> "12 acertos" @@ 11 :> "11 acertos"),
         min_prize |-> 11],
     megasena |->
        [max_number |-> 60, numbers_to_pick |-> 6,
         prize_tiers |-> (6 :> "Sena" @@ 5 :> "Quina" @@ 4 :> "Quadra"),
         min_prize |-> 4]]

VALID_LOTTERY_TYPES == DOMAIN LOTTERY_CONFIG

STRATEGIES == {"smart", "hot", "cold", "balanced", "coverage"}

\* lottery_type in VALID_LOTTERY_TYPES
IsValidGame(lottery_type) == lottery_type \in VALID_LOTTERY_TYPES

\* mutant: the strategy name is not validated
AnyStrategy(strategy) == TRUE

\* strategy in ["smart", "hot", "cold", "balanced", "coverage"]
IsValidStrategy(strategy) == strategy \in STRATEGIES

\* Python truthiness of an Optional[str] query parameter: None and "" are falsy
Truthy(opt) == ~IsNone(opt) /\ TheVal(opt) # ""

(***************************** Draw Source *********************************)
\* What the upstream API knows: draw n of each game (n in 1..MaxConcurso).
\* A record carries numero, listaDezenas, listaDezenasSegundoSorteio (empty
\* unless the game is dupla_sena) and the valorPremio column of listaRateioPremio.
SourceNumbers(lt, n) ==
    CASE lt = "quina" ->
            IF n % 2 = 1 THEN <<5, 15, 60, 70, 80>> ELSE <<1, 2, 3, 50, 51>>
      [] lt = "dupla_sena" ->
            IF n % 2 = 1 THEN <<1, 2, 3, 10, 11, 12>> ELSE <<1, 30, 31, 32, 33, 34>>
      [] lt = "lotofacil" ->
            IF n % 2 = 1 THEN Interval(1, 11) \o Interval(16, 19)
            ELSE Interval(1, 5) \o Interval(16, 25)
      [] OTHER ->
            IF n % 2 = 1 THEN <<1, 2, 3, 4, 50, 51>> ELSE <<1, 20, 30, 40, 50, 60>>

SourceSecond(lt, n) ==
    IF lt # "dupla_sena" THEN <<>>
    ELSE IF n % 2 = 1 THEN <<1, 2, 3, 4, 20, 21>> ELSE <<1, 2, 40, 41, 42, 43>>

SourceDraw(lt, n) ==
    [numero |-> n,
     listaDezenas |-> Dezenas(SourceNumbers(lt, n)),
     listaDezenasSegundoSorteio |-> Dezenas(SourceSecond(lt, n)),
     listaRateioPremio |-> IF n % 2 = 1 THEN <<500, 40, 3, 2>> ELSE <<500, 40, 3>>]

\* fetch_lottery_data: every outcome of one call.  concurso is an Optional[int];
\* None and 0 ask for the latest draw, which may be any draw the source knows.
FetchOutcomes(lt, concurso) ==
    IF lt \notin VALID_LOTTERY_TYPES THEN {None}
    ELSE {None} \cup
         (IF ~IsNone(concurso) /\ TheVal(concurso) # 0
          THEN {Some(SourceDraw(lt, n)) : n \in {TheVal(concurso)} \cap (1..MaxConcurso)}
          ELSE {Some(SourceDraw(lt, n)) : n \in 1..MaxConcurso})

(****************************** bet ledger *********************************)
\* mutant: the key is built from the numbers as given, not sorted
get_bet_hash_unsorted(lottery_type, numbers) == <<lottery_type, numbers>>

\* get_bet_hash: md5 of "<game>:<sorted numbers joined by commas>"
get_bet_hash(lottery_type, numbers) == <<lottery_type, Sorted(numbers)>>

\* db.bets.find_one({"hash": h})
FindByHash(store, h) ==
    LET hits == SelectSeq(store, LAMBDA b : b.hash = h)
    IN IF hits = <<>> THEN None ELSE Some(Head(hits))

\* mutant: the lookup ignores the id and takes the first stored bet
FindFirst(store, bet_id) == IF store = <<>> THEN None ELSE Some(Head(store))

\* db.bets.find_one({"id": bet_id})
FindById(store, bet_id) ==
    LET hits == SelectSeq(store, LAMBDA b : b.id = bet_id)
    IN IF hits = <<>> THEN None ELSE Some(Head(hits))

\* mutant: the result is stored and checked is left as it was
UpdateResultOnly(store, bet_id, result) ==
    [i \in DOMAIN store |->
        IF store[i].id = bet_id THEN [store[i] EXCEPT !.result = Some(result)] ELSE store[i]]

\* db.bets.update_one({"id": bet_id}, {"$set": {"checked": True, "result": result}})
RECURSIVE UpdateResult(_, _, _)
UpdateResult(store, bet_id, result) ==
    IF store = <<>> THEN <<>>
    ELSE IF Head(store).id = bet_id
         THEN <<[Head(store) EXCEPT !.checked = TRUE, !.result = Some(result)]>> \o Tail(store)
         ELSE <<Head(store)>> \o UpdateResult(Tail(store), bet_id, result)

\* the bet_doc save_bet builds
BetDoc(id, bet, bet_hash) ==
    [id |-> id,
     lottery_type |-> bet.lottery_type,
     numbers |-> Sorted(bet.numbers),
     hash |-> bet_hash,
     checked |-> FALSE,
     result |-> None]

\* The request handled last and what it answered: the endpoint, the game
\* identifier the request carried (an Optional), its other arguments, the HTTP
\* status, the response body, and the numbers of Draw Source calls and of
\* database operations the handler made.
Response(op, game, arg, status, body, src, db) ==
    [op |-> op, game |-> game, arg |-> arg, status |-> status, body |-> body,
     src |-> src, db |-> db]

\* save_bet up to the answer of db.bets.find_one: 400 for an unknown game, 409
\* for a known hash, else the request goes on to its insert_one.
SaveLookup(bet) ==
    /\ IF ~IsValidGame(bet.lottery_type)
       THEN /\ last' = Response("save_bet", Some(bet.lottery_type), bet, 400, None, 0, 0)
            /\ UNCHANGED <<bets, pending>>
       ELSE LET bet_hash == get_bet_hash(bet.lottery_type, bet.numbers)
                existing == FindByHash(bets, bet_hash)
            IN IF ~IsNone(existing)
               THEN /\ last' = Response("save_bet", Some(bet.lottery_type), bet, 409, None, 0, 1)
                    /\ UNCHANGED <<bets, pending>>
               ELSE /\ Len(pending) < MaxInflight
                    /\ Len(bets) + Len(pending) < MaxBets
                    /\ nextId + Len(pending) <= MaxIds
                    /\ pending' = Append(pending, [bet |-> bet, hash |-> bet_hash])
                    /\ last' = Response("save_bet_lookup", Some(bet.lottery_type), bet, 0, None, 0, 1)
                    /\ UNCHANGED bets
    /\ UNCHANGED <<draws, nextId, gen>>

\* save_bet from db.bets.insert_one to its 200 response
SaveInsert(i) ==
    /\ i \in DOMAIN pending
    /\ LET p == pending[i]
           bet_doc == BetDoc(nextId, p.bet, p.hash)
       IN /\ bets' = Append(bets, bet_doc)
          /\ last' = Response("save_bet", Some(p.bet.lottery_type), p.bet, 200, Some(bet_doc), 0, 2)
    /\ nextId' = nextId + 1
    /\ pending' = SubSeq(pending, 1, i - 1) \o SubSeq(pending, i + 1, Len(pending))
    /\ UNCHANGED <<draws, gen>>

(****************************** bet checking *******************************)
\* the index of each prize tier in the draw's listaRateioPremio
TierMap(lottery_type) ==
    CASE lottery_type = "megasena" -> (6 :> 0 @@ 5 :> 1 @@ 4 :> 2)
      [] lottery_type = "lotofacil" -> (15 :> 0 @@ 14 :> 1 @@ 13 :> 2 @@ 12 :> 3 @@ 11 :> 4)
      [] lottery_type = "quina" -> (5 :> 0 @@ 4 :> 1 @@ 3 :> 2 @@ 2 :> 3)
      [] lottery_type = "dupla_sena" -> (6 :> 0 @@ 5 :> 1 @@ 4 :> 2 @@ 3 :> 3)
      [] OTHER -> <<>>

get_prize_value_from_result(data, lottery_type, match_count) ==
    LET premiacoes == data.listaRateioPremio
        tier_map == TierMap(lottery_type)
    IN IF match_count \in DOMAIN tier_map /\ tier_map[match_count] < Len(premiacoes)
       THEN Some(premiacoes[tier_map[match_count] + 1])
       ELSE None

\* prize_tiers.get(match_count, f"{match_count} acertos")
TierLabel(prize_tiers, match_count) ==
    IF match_count \in DOMAIN prize_tiers THEN prize_tiers[match_count]
    ELSE FmtAcertos(match_count)

\* mutant: a prize needs more than min_prize matches
ExceedsPrize(match_count, min_prize) == match_count > min_prize

\* match_count >= min_prize
ReachesPrize(match_count, min_prize) == match_count >= min_prize

\* check_bet: does the second dupla_sena draw replace the first?
SecondDrawBetter(lottery_type, second_count, match_count, min_prize) ==
    /\ lottery_type = "dupla_sena"
    /\ second_count >= min_prize
    /\ second_count > match_count

\* check_bet: the result document built from a stored bet and a fetched draw.
\* A prize tier is the sequence of the string pieces it is concatenated from.
CheckBetResult(bet, data) ==
    LET lottery_type == bet.lottery_type
        config == LOTTERY_CONFIG[lottery_type]
        min_prize == config.min_prize
        prize_tiers == config.prize_tiers
        drawn_numbers == Ints(data.listaDezenas)
        bet_numbers == bet.numbers
        matches == InList(bet_numbers, drawn_numbers)
        match_count == Len(matches)
        drawn_second == Ints(data.listaDezenasSegundoSorteio)
        matches_second == IF lottery_type = "dupla_sena"
                          THEN InList(bet_numbers, drawn_second) ELSE <<>>
        first_wins == ReachesPrize(match_count, min_prize)
        second == SecondDrawBetter(lottery_type, Len(matches_second), match_count, min_prize)
    IN [concurso |-> data.numero,
        drawn_numbers |-> drawn_numbers,
        drawn_numbers_second |-> IF lottery_type = "dupla_sena" THEN Some(drawn_second) ELSE None,
        matches |-> IF second THEN matches_second ELSE matches,
        match_count |-> IF second THEN Len(matches_second) ELSE match_count,
        prize_tier |->
            IF second
            THEN Some(<<TierLabel(prize_tiers, Len(matches_second)), " (2o sorteio)">>)
            ELSE IF first_wins THEN Some(<<TierLabel(prize_tiers, match_count)>>) ELSE None,
        prize_value |->
            IF first_wins THEN get_prize_value_from_result(data, lottery_type, match_count)
            ELSE None,
        is_winner |-> first_wins \/ second,
        min_to_win |-> min_prize]

\* the game of the stored bet with this id ("" when there is none)
GameOfBet(store, bet_id) ==
    IF IsNone(FindById(store, bet_id)) THEN "" ELSE TheVal(FindById(store, bet_id)).lottery_type

\* check_bet(bet_id, concurso); fetched is the outcome of its fetch_lottery_data
\* call (made only when the bet exists)
CheckBet(bet_id, concurso, fetched) ==
    LET found == FindById(bets, bet_id)
        arg == [bet_id |-> bet_id, concurso |-> concurso, fetched |-> fetched]
    IN /\ IF IsNone(found)
          THEN /\ last' = Response("check_bet", None, arg, 404, None, 0, 1)
               /\ UNCHANGED bets
          ELSE LET bet == TheVal(found)
               IN IF IsNone(fetched)
                  THEN /\ last' = Response("check_bet", None, arg, 503, None, 1, 1)
                       /\ UNCHANGED bets
                  ELSE LET result == CheckBetResult(bet, TheVal(fetched))
                       IN /\ bets' = UpdateResult(bets, bet_id, result)
                          /\ last' = Response("check_bet", None, arg, 200,
                                              Some([bet_id |-> bet_id, result |-> result]), 1, 2)
       /\ UNCHANGED <<draws, nextId, pending, gen>>

\* db.bets.find(query).to_list(length)
CHECK_ALL_LIMIT == 100

\* check_all_bets: the query {"checked": False} plus the game filter when truthy
MatchesUnchecked(b, lottery_type) ==
    /\ b.checked = FALSE
    /\ (Truthy(lottery_type) => b.lottery_type = TheVal(lottery_type))

ToList(s, length) == SubSeq(s, 1, Min(Len(s), length))

\* check_all_bets: the result document for one bet and the draw fetched for it
CheckAllResult(bet, data) ==
    LET lt == bet.lottery_type
        config == LOTTERY_CONFIG[lt]
        min_prize == config.min_prize
        prize_tiers == config.prize_tiers
        drawn_numbers == Ints(data.listaDezenas)
        matches == InList(bet.numbers, drawn_numbers)
        match_count == Len(matches)
        is_winner == ReachesPrize(match_count, min_prize)
    IN [bet_id |-> bet.id,
        lottery_type |-> lt,
        concurso |-> data.numero,
        matches |-> matches,
        match_count |-> match_count,
        is_winner |-> is_winner,
        prize_tier |-> IF is_winner THEN Some(<<TierLabel(prize_tiers, match_count)>>) ELSE None,
        prize_value |-> IF is_winner THEN get_prize_value_from_result(data, lt, match_count)
                        ELSE None,
        min_to_win |-> min_prize]

\* if prize_value: total_prize += prize_value
AddPrize(total_prize, prize_value) ==
    IF ~IsNone(prize_value) /\ TheVal(prize_value) # 0
    THEN total_prize + TheVal(prize_value) ELSE total_prize

\* mutant: the first failed fetch ends the batch
RECURSIVE CheckAllLoopBreak(_, _, _)
CheckAllLoopBreak(unchecked_bets, fetched, acc) ==
    IF unchecked_bets = <<>> THEN acc
    ELSE LET bet == Head(unchecked_bets)
             data == fetched[bet.id]
         IN IF IsNone(data) THEN [acc EXCEPT !.src = @ + 1]
            ELSE LET result == CheckAllResult(bet, TheVal(data))
                 IN CheckAllLoopBreak(Tail(unchecked_bets), fetched,
                        [store |-> UpdateResult(acc.store, bet.id, result),
                         results |-> Append(acc.results, result),
                         winners |-> IF result.is_winner THEN acc.winners + 1 ELSE acc.winners,
                         total_prize |-> IF result.is_winner
                                         THEN AddPrize(acc.total_prize, result.prize_value)
                                         ELSE acc.total_prize,
                         src |-> acc.src + 1])

\* check_all_bets: the loop over unchecked_bets.  fetched[id] is the outcome of
\* the fetch_lottery_data call made for the bet with that id.
RECURSIVE CheckAllLoop(_, _, _)
CheckAllLoop(unchecked_bets, fetched, acc) ==
    IF unchecked_bets = <<>> THEN acc
    ELSE LET bet == Head(unchecked_bets)
             data == fetched[bet.id]
         IN IF IsNone(data)
            THEN CheckAllLoop(Tail(unchecked_bets), fetched,
                              [acc EXCEPT !.src = @ + 1])
            ELSE LET result == CheckAllResult(bet, TheVal(data))
                 IN CheckAllLoop(Tail(unchecked_bets), fetched,
                        [store |-> UpdateResult(acc.store, bet.id, result),
                         results |-> Append(acc.results, result),
                         winners |-> IF result.is_winner THEN acc.winners + 1 ELSE acc.winners,
                         total_prize |-> IF result.is_winner
                                         THEN AddPrize(acc.total_prize, result.prize_value)
                                         ELSE acc.total_prize,
                         src |-> acc.src + 1])

\* check_all_bets(lottery_type)
CheckAllBets(lottery_type, fetched) ==
    LET unchecked_bets ==
            ToList(SelectSeq(bets, LAMBDA b : MatchesUnchecked(b, lottery_type)), CHECK_ALL_LIMIT)
        out == CheckAllLoop(unchecked_bets, fetched,
                            [store |-> bets, results |-> <<>>, winners |-> 0,
                             total_prize |-> 0, src |-> 0])
    IN /\ bets' = out.store
       /\ last' = Response("check_all_bets", lottery_type, [fetched |-> fetched], 200,
                           Some([data |-> out.results,
                                 checked_count |-> Len(out.results),
                                 winners_count |-> out.winners,
                                 total_prize_value |-> out.total_prize]),
                           out.src, 1 + Len(out.results))
       /\ UNCHANGED <<draws, nextId, pending, gen>>

(***************************** list and delete *****************************)
\* get_bets(lottery_type): newest first
RECURSIVE Reverse(_)
Reverse(s) == IF s = <<>> THEN <<>> ELSE Append(Reverse(Tail(s)), Head(s))

GetBets(lottery_type) ==
    /\ IF Truthy(lottery_type) /\ ~IsValidGame(TheVal(lottery_type))
       THEN last' = Response("get_bets", lottery_type, <<>>, 400, None, 0, 0)
       ELSE LET found == SelectSeq(bets, LAMBDA b :
                             Truthy(lottery_type) => b.lottery_type = TheVal(lottery_type))
            IN last' = Response("get_bets", lottery_type, <<>>, 200,
                                Some([data |-> Reverse(found), count |-> Len(found)]), 0, 1)
    /\ UNCHANGED <<bets, draws, nextId, pending, gen>>

\* mutant: the oldest stored bet is deleted, whatever its id
DeleteOldest(store, bet_id) == IF store = <<>> THEN <<>> ELSE Tail(store)

\* db.bets.delete_one({"id": bet_id})
RECURSIVE DeleteOne(_, _)
DeleteOne(store, bet_id) ==
    IF store = <<>> THEN <<>>
    ELSE IF Head(store).id = bet_id THEN Tail(store)
    ELSE <<Head(store)>> \o DeleteOne(Tail(store), bet_id)

\* delete_bet(bet_id)
DeleteBet(bet_id) ==
    /\ bets' = DeleteOne(bets, bet_id)
    /\ last' = IF Len(bets') = Len(bets)
               THEN Response("delete_bet", None, [bet_id |-> bet_id], 404, None, 0, 1)
               ELSE Response("delete_bet", None, [bet_id |-> bet_id], 200, None, 0, 1)
    /\ UNCHANGED <<draws, nextId, pending, gen>>

\* delete_all_bets(lottery_type)
DeleteAllBets(lottery_type) ==
    /\ IF Truthy(lottery_type) /\ ~IsValidGame(TheVal(lottery_type))
       THEN /\ last' = Response("delete_all_bets", lottery_type, <<>>, 400, None, 0, 0)
            /\ UNCHANGED bets
       ELSE /\ bets' = SelectSeq(bets, LAMBDA b :
                           ~(Truthy(lottery_type) => b.lottery_type = TheVal(lottery_type)))
            /\ last' = Response("delete_all_bets", lottery_type, <<>>, 200,
                                Some([deleted_count |-> Len(bets) - Len(bets')]), 0, 1)
    /\ UNCHANGED <<draws, nextId, pending, gen>>

(******************************* draw cache ********************************)
\* the documents of db[f"{lottery_type}_results"] (an unknown collection is empty)
Collection(store, lottery_type) ==
    IF lottery_type \in DOMAIN store THEN store[lottery_type] ELSE {}

\* data.get("numero", data.get("concurso")): upstream records say numero,
\* cached documents say concurso
DrawNumber(data) == IF "numero" \in DOMAIN data THEN data.numero ELSE data.concurso

\* data.get("listaDezenas", data.get("dezenas", []))
DrawDezenas(data) == IF "listaDezenas" \in DOMAIN data THEN data.listaDezenas ELSE data.dezenas

\* db[...].find_one({"concurso": n})
FindDraw(store, lottery_type, n) ==
    LET hits == {d \in Collection(store, lottery_type) : d.concurso = n}
    IN IF hits = {} THEN None ELSE Some(CHOOSE d \in hits : TRUE)

\* mutant: the cache is read in ascending draw-number order
RECURSIVE SortedAsc(_)
SortedAsc(docs) ==
    IF docs = {} THEN <<>>
    ELSE LET low == CHOOSE d \in docs : \A e \in docs : e.concurso >= d.concurso
         IN <<low>> \o SortedAsc(docs \ {low})

\* db[...].find({}).sort("concurso", -1).limit(count).to_list(count)
RECURSIVE SortedDesc(_)
SortedDesc(docs) ==
    IF docs = {} THEN <<>>
    ELSE LET top == CHOOSE d \in docs : \A e \in docs : e.concurso <= d.concurso
         IN <<top>> \o SortedDesc(docs \ {top})

\* mutant: the cache is read without the limit
AllDraws(store, lottery_type, count) == SortedDesc(Collection(store, lottery_type))

RecentDraws(store, lottery_type, count) ==
    ToList(SortedDesc(Collection(store, lottery_type)), count)

\* store_result: the document written for a fetched record; the second draw is
\* set only for dupla_sena and only when the record carries one
ResultDoc(lottery_type, data) ==
    [concurso |-> DrawNumber(data),
     dezenas |-> DrawDezenas(data),
     dezenas_segundo_sorteio |->
        IF lottery_type = "dupla_sena" /\ data.listaDezenasSegundoSorteio # <<>>
        THEN Some(data.listaDezenasSegundoSorteio) ELSE None]

\* update_one({"concurso": n}, {"$set": doc}, upsert=True): fields the new
\* document does not set keep the value the stored one has
Upsert(docs, doc) ==
    LET old == {d \in docs : d.concurso = doc.concurso}
        merged == IF old = {} \/ ~IsNone(doc.dezenas_segundo_sorteio) THEN doc
                  ELSE [doc EXCEPT !.dezenas_segundo_sorteio =
                                      (CHOOSE d \in old : TRUE).dezenas_segundo_sorteio]
    IN (docs \ old) \cup {merged}

\* store_result(lottery_type, data)
store_result(store, lottery_type, data) ==
    IF DrawNumber(data) = 0 THEN store
    ELSE [store EXCEPT ![lottery_type] = Upsert(@, ResultDoc(lottery_type, data))]

\* fetch_lottery_data(lottery_type, n) inside one fetch_multiple_results call:
\* it fails for the draw numbers in fails
FetchDraw(lottery_type, n, fails) ==
    IF n \in fails \/ n \notin 1..MaxConcurso THEN None ELSE Some(SourceDraw(lottery_type, n))

\* the count get_lottery_statistics and generate_bets ask fetch_multiple_results for
STATS_COUNT == 100

\* mutant: the backward walk is limited by count alone
UNCAPPED_WALK == STATS_COUNT

\* the API-call limit of the backward walk
MAX_WALK == 50

\* mutant: a failed fetch of a historical draw ends the walk
WalkStepBreak(lottery_type, current_concurso, fails, acc) ==
    LET concurso_num == current_concurso - acc.i
    IN IF acc.i = 0 THEN acc
       ELSE IF concurso_num <= 0 THEN [acc EXCEPT !.i = 0]
       ELSE LET cached == FindDraw(acc.store, lottery_type, concurso_num)
                data == FetchDraw(lottery_type, concurso_num, fails)
            IN IF ~IsNone(cached)
               THEN [acc EXCEPT !.results = Append(@, TheVal(cached)), !.db = @ + 1,
                                !.i = @ + 1]
               ELSE IF ~IsNone(data)
               THEN [results |-> Append(acc.results, TheVal(data)),
                     store |-> store_result(acc.store, lottery_type, TheVal(data)),
                     src |-> acc.src + 1, db |-> acc.db + 2,
                     fetched |-> acc.fetched \cup {concurso_num},
                     i |-> acc.i + 1]
               ELSE [acc EXCEPT !.src = @ + 1, !.db = @ + 1,
                                !.fetched = @ \cup {concurso_num}, !.i = 0]

\* fetch_multiple_results: one turn of the loop over i in range(1, min(count, 50));
\* acc.i is the loop index and acc.i = 0 says the loop has met its break
WalkStep(lottery_type, current_concurso, fails, acc) ==
    LET concurso_num == current_concurso - acc.i
    IN IF acc.i = 0 THEN acc
       ELSE IF concurso_num <= 0 THEN [acc EXCEPT !.i = 0]
       ELSE LET cached == FindDraw(acc.store, lottery_type, concurso_num)
                data == FetchDraw(lottery_type, concurso_num, fails)
            IN IF ~IsNone(cached)
               THEN [acc EXCEPT !.results = Append(@, TheVal(cached)), !.db = @ + 1,
                                !.i = @ + 1]
               ELSE IF ~IsNone(data)
               THEN [results |-> Append(acc.results, TheVal(data)),
                     store |-> store_result(acc.store, lottery_type, TheVal(data)),
                     src |-> acc.src + 1, db |-> acc.db + 2,
                     fetched |-> acc.fetched \cup {concurso_num},
                     i |-> acc.i + 1]
               ELSE [acc EXCEPT !.src = @ + 1, !.db = @ + 1,
                                !.fetched = @ \cup {concurso_num}, !.i = @ + 1]

\* fetch_multiple_results: the loop over i in range(1, min(count, 50)); the
\* round with i = current_concurso breaks, and no round is run after it
WalkBack(lottery_type, current_concurso, stop, fails, acc) ==
    Repeat(LAMBDA a : WalkStep(lottery_type, current_concurso, fails, a),
           Min(stop - 1, current_concurso), acc)

\* fetch_multiple_results(lottery_type, count); latest is the outcome of the
\* first fetch_lottery_data call.  Returns the results, the store, the numbers of
\* source calls and database operations and the draw numbers asked of the source.
fetch_multiple_results(store, lottery_type, count, latest, fails) ==
    IF IsNone(latest)
    THEN [results |-> RecentDraws(store, lottery_type, count), store |-> store,
          src |-> 1, db |-> 1, fetched |-> {}]
    ELSE LET current_concurso == DrawNumber(TheVal(latest))
             out == WalkBack(lottery_type, current_concurso, Min(count, MAX_WALK), fails,
                             [results |-> <<TheVal(latest)>>,
                              store |-> store_result(store, lottery_type, TheVal(latest)),
                              src |-> 1, db |-> 1, fetched |-> {}, i |-> 1])
         IN [results |-> out.results, store |-> out.store, src |-> out.src, db |-> out.db,
             fetched |-> out.fetched]

(***************************** draw endpoints ******************************)
\* the 400 response every endpoint gives for an unknown game or strategy
Reject(op, lottery_type, arg) ==
    /\ last' = Response(op, Some(lottery_type), arg, 400, None, 0, 0)
    /\ UNCHANGED <<bets, draws>>

\* get_latest_result: the "data" object built from a fetched record
LatestData(lottery_type, data) ==
    [concurso |-> DrawNumber(data),
     dezenas |-> DrawDezenas(data),
     dezenas_segundo_sorteio |->
        IF lottery_type = "dupla_sena" THEN Some(data.listaDezenasSegundoSorteio) ELSE None]

\* get_latest_result(lottery_type); fetched is the outcome of its fetch
GetLatestResult(lottery_type, fetched) ==
    /\ IF ~IsValidGame(lottery_type) THEN Reject("get_latest_result", lottery_type, <<>>)
       ELSE LET arg == [fetched |-> fetched]
                cached == RecentDraws(draws, lottery_type, 1)
            IN IF ~IsNone(fetched)
               THEN /\ draws' = store_result(draws, lottery_type, TheVal(fetched))
                    /\ last' = Response("get_latest_result", Some(lottery_type), arg, 200,
                                        Some([data |-> LatestData(lottery_type, TheVal(fetched)),
                                              cached |-> FALSE]), 1, 1)
                    /\ UNCHANGED bets
               ELSE /\ last' = IF cached # <<>>
                               THEN Response("get_latest_result", Some(lottery_type), arg, 200,
                                             Some([data |-> cached[1], cached |-> TRUE]), 1, 1)
                               ELSE Response("get_latest_result", Some(lottery_type), arg, 503,
                                             None, 1, 1)
                    /\ UNCHANGED <<bets, draws>>
    /\ UNCHANGED <<nextId, pending, gen>>

\* get_lottery_history(lottery_type, limit).  Beside the data sent, the body
\* records what the fetch_multiple_results call returned (records) and the draw
\* numbers it asked the Draw Source for after the latest (asked).
GetLotteryHistory(lottery_type, limit, latest, fails) ==
    /\ IF ~IsValidGame(lottery_type) THEN Reject("get_lottery_history", lottery_type, <<>>)
       ELSE LET got == fetch_multiple_results(draws, lottery_type, limit, latest, fails)
                results == RecentDraws(got.store, lottery_type, limit)
            IN /\ draws' = got.store
               /\ last' = Response("get_lottery_history", Some(lottery_type),
                                   [limit |-> limit, latest |-> latest, fails |-> fails], 200,
                                   Some([data |-> results, count |-> Len(results),
                                         records |-> got.results, asked |-> got.fetched]),
                                   got.src, got.db + 1)
               /\ UNCHANGED bets
    /\ UNCHANGED <<nextId, pending, gen>>

\* get_lottery_statistics(lottery_type); the statistics in the body are those of
\* calculate_statistics over the assembled records
GetLotteryStatistics(lottery_type, latest, fails) ==
    /\ IF ~IsValidGame(lottery_type) THEN Reject("get_lottery_statistics", lottery_type, <<>>)
       ELSE LET got == fetch_multiple_results(draws, lottery_type, STATS_COUNT, latest, fails)
            IN /\ draws' = got.store
               /\ last' = Response("get_lottery_statistics", Some(lottery_type),
                                   [latest |-> latest, fails |-> fails], 200,
                                   Some([records |-> got.results, asked |-> got.fetched]),
                                   got.src, got.db)
               /\ UNCHANGED bets
    /\ UNCHANGED <<nextId, pending, gen>>

\* get_next_draw(lottery_type)
GetNextDraw(lottery_type, fetched) ==
    /\ IF ~IsValidGame(lottery_type) THEN Reject("get_next_draw", lottery_type, <<>>)
       ELSE /\ last' = Response("get_next_draw", Some(lottery_type), [fetched |-> fetched],
                                IF IsNone(fetched) THEN 503 ELSE 200, None, 1, 0)
            /\ UNCHANGED <<bets, draws>>
    /\ UNCHANGED <<nextId, pending, gen>>

\* generate_bets(lottery_type, strategy, count) as far as the stores go: both
\* parameters are validated, then the history is assembled (and cached) and the
\* bets are generated from it without touching a store
GenerateBets(lottery_type, strategy, latest, fails) ==
    /\ IF ~IsValidGame(lottery_type) \/ ~IsValidStrategy(strategy)
       THEN Reject("generate_bets", lottery_type, [strategy |-> strategy])
       ELSE LET got == fetch_multiple_results(draws, lottery_type, STATS_COUNT, latest, fails)
            IN /\ draws' = got.store
               /\ last' = Response("generate_bets", Some(lottery_type),
                                   [strategy |-> strategy, latest |-> latest, fails |-> fails],
                                   200, Some([records |-> got.results, asked |-> got.fetched]),
                                   got.src, got.db)
               /\ UNCHANGED bets
    /\ UNCHANGED <<nextId, pending, gen>>

(************************* requests and specifications *********************)
NoGen == [in |-> None, out |-> None]

\* the BetCreate payloads clients send
SaveRequests ==
    {[lottery_type |-> "quina", numbers |-> <<5, 15, 25, 35, 45>>],
     [lottery_type |-> "quina", numbers |-> <<45, 5, 35, 15, 25>>],
     [lottery_type |-> "dupla_sena", numbers |-> <<1, 2, 3, 4, 5, 6>>],
     [lottery_type |-> "invalid", numbers |-> <<1, 2, 3, 4, 5>>]}

\* the game identifiers requests carry
GameIds == VALID_LOTTERY_TYPES \cup {"invalid", ""}
GameFilters == {None} \cup {Some(g) : g \in GameIds}
BetIds == 1..MaxIds
ConcursoArgs == {None} \cup {Some(n) : n \in 0..MaxConcurso}

\* one fetch outcome per fetch_lottery_data call check_all_bets(lottery_type) makes
FetchedMaps(store, lottery_type) ==
    LET ids == {store[i].id : i \in {j \in DOMAIN store : MatchesUnchecked(store[j], lottery_type)}}
        all == UNION {FetchOutcomes(lt, None) : lt \in VALID_LOTTERY_TYPES}
    IN {f \in [ids -> all] : \A id \in ids : f[id] \in FetchOutcomes(GameOfBet(store, id), None)}

Init ==
    /\ bets = <<>>
    /\ draws = [lt \in VALID_LOTTERY_TYPES |-> {}]
    /\ nextId = 1
    /\ pending = <<>>
    /\ last = Response("start", None, <<>>, 0, None, 0, 0)
    /\ gen = NoGen

LedgerRequest(saves, filters) ==
    \/ \E bet \in saves : SaveLookup(bet)
    \/ \E bet_id \in BetIds, concurso \in ConcursoArgs :
          \E fetched \in FetchOutcomes(GameOfBet(bets, bet_id), concurso) :
             CheckBet(bet_id, concurso, fetched)
    \/ \E lottery_type \in filters : \E fetched \in FetchedMaps(bets, lottery_type) :
          CheckAllBets(lottery_type, fetched)
    \/ \E lottery_type \in filters : GetBets(lottery_type)
    \/ \E bet_id \in BetIds : DeleteBet(bet_id)
    \/ \E lottery_type \in filters : DeleteAllBets(lottery_type)

\* requests served one after the other: a request starts when none is in flight
Next ==
    \/ pending = <<>> /\ LedgerRequest(SaveRequests, GameFilters)
    \/ \E i \in DOMAIN pending : SaveInsert(i)

Spec == Init /\ [][Next]_vars

\* requests served concurrently: a save may start while others are in flight
NextConc ==
    \/ LedgerRequest(SaveRequests, GameFilters)
    \/ \E i \in DOMAIN pending : SaveInsert(i)

SpecConc == Init /\ [][NextConc]_vars

\* the requests to the draw endpoints, for the given game identifiers, history
\* limits and strategies
HistoryLimits == {2}
StrategyArgs == {"smart", "invalid"}

DrawRequest(games, limits, strategies) ==
    \/ \E lt \in games : \E fetched \in FetchOutcomes(lt, None) : GetLatestResult(lt, fetched)
    \/ \E lt \in games, limit \in limits, fails \in SUBSET (1..MaxConcurso) :
          \E latest \in FetchOutcomes(lt, None) : GetLotteryHistory(lt, limit, latest, fails)
    \/ \E lt \in games, fails \in SUBSET (1..MaxConcurso) :
          \E latest \in FetchOutcomes(lt, None) : GetLotteryStatistics(lt, latest, fails)
    \/ \E lt \in games : \E fetched \in FetchOutcomes(lt, None) : GetNextDraw(lt, fetched)
    \/ \E lt \in games, strategy \in strategies,
           fails \in SUBSET (1..MaxConcurso) :
          \E latest \in FetchOutcomes(lt, None) : GenerateBets(lt, strategy, latest, fails)

\* the draw endpoints alone, over the draw cache
NextDraws == DrawRequest({"quina", "dupla_sena", "invalid"}, HistoryLimits, StrategyArgs)

SpecDraws == Init /\ [][NextDraws]_vars

\* every endpoint, served one request after the other
ApiSaves == {r \in SaveRequests : r.numbers = <<5, 15, 25, 35, 45>> \/ r.lottery_type = "invalid"}
ApiFilters == {None, Some(""), Some("quina"), Some("invalid")}

NextApi ==
    \/ pending = <<>> /\ LedgerRequest(ApiSaves, ApiFilters)
    \/ pending = <<>> /\ DrawRequest({"quina", "invalid"}, {2}, {"smart", "invalid"})
    \/ \E i \in DOMAIN pending : SaveInsert(i)

SpecApi == Init /\ [][NextApi]_vars

(******************************* claims ************************************)
\* two stored bets are twins when they have the same game and the same number set
Twins(a, b) == a.lottery_type = b.lottery_type /\ Range(a.numbers) = Range(b.numbers)

NoTwins(store) == \A i, j \in DOMAIN store : i # j => ~Twins(store[i], store[j])

\* C2: with saves made one after the other, a save whose game and number set (in
\* any order) equal those of a stored bet is answered 409 and leaves the store
\* unchanged; any other save of a supported game is answered 200 and appends one
\* bet with checked = FALSE and no result; so the store never holds the bet twice.
C2_SecondSaveConflicts ==
    /\ [](NoTwins(bets))
    /\ [][(last'.op = "save_bet" /\ last'.status # 400) =>
            IF \E i \in DOMAIN bets : Twins(bets[i], last'.arg)
            THEN last'.status = 409 /\ bets' = bets
            ELSE /\ last'.status = 200
                 /\ Len(bets') = Len(bets) + 1
                 /\ SubSeq(bets', 1, Len(bets)) = bets
                 /\ Twins(bets'[Len(bets')], last'.arg)
                 /\ bets'[Len(bets')].checked = FALSE
                 /\ bets'[Len(bets')].result = None
                 /\ last'.body = Some(bets'[Len(bets')])]_vars

\* C2 witness: a save of a stored bet's numbers given in another order was refused
C2_Witness ==
    /\ last.op = "save_bet" /\ last.status = 409
    /\ Len(bets) = 1
    /\ Twins(bets[1], last.arg)
    /\ bets[1].numbers # last.arg.numbers

\* C3: the bet store never holds two bets with the same content hash, under
\* every interleaving of concurrent save requests.
C3_NoDuplicateHash ==
    \A i, j \in DOMAIN bets : i # j => bets[i].hash # bets[j].hash

\* C9: check-bet answers 404 when no stored bet has the id and 503 when the draw
\* fetch fails, and in both cases no stored bet changes.
C9_CheckBetFailures ==
    [][last'.op = "check_bet" =>
         LET arg == last'.arg
             known == \E i \in DOMAIN bets : bets[i].id = arg.bet_id
         IN /\ ~known => (last'.status = 404 /\ bets' = bets)
            /\ (known /\ IsNone(arg.fetched)) => (last'.status = 503 /\ bets' = bets)
            /\ (known /\ ~IsNone(arg.fetched)) => last'.status = 200]_vars

\* C9 witness: a failed fetch answered 503 while a checked bet is in the store
C9_Witness ==
    /\ last.op = "check_bet" /\ last.status = 503
    /\ \E i \in DOMAIN bets : bets[i].id = last.arg.bet_id /\ bets[i].checked

C9_WitnessNotFound ==
    /\ last.op = "check_bet" /\ last.status = 404 /\ Len(bets) > 0

RECURSIVE SumOver(_, _)
SumOver(S, f) ==
    IF S = {} THEN 0
    ELSE LET x == CHOOSE y \in S : TRUE IN f[x] + SumOver(S \ {x}, f)

\* the prize value a stored result carries (0 when it carries none)
PrizeOf(b) ==
    IF IsNone(b.result) \/ IsNone(TheVal(b.result).prize_value) THEN 0
    ELSE TheVal(TheVal(b.result).prize_value)

\* the bets a check-all request is about: unchecked, of the filtered game when a
\* filter is given, and with a successful draw fetch in this call
CheckAllTargets(store, filter, fetched) ==
    {i \in DOMAIN store :
        /\ ~store[i].checked
        /\ Truthy(filter) => store[i].lottery_type = TheVal(filter)
        /\ store[i].id \in DOMAIN fetched
        /\ ~IsNone(fetched[store[i].id])}

\* C10: check-all-bets modifies exactly the unchecked bets that match the game
\* filter and whose draw fetch succeeded: each becomes checked with a result and
\* every other bet is unchanged; checked_count, winners_count and
\* total_prize_value count and sum exactly those bets.
CheckAllFrame(targets) ==
    /\ Len(bets') = Len(bets)
    /\ \A i \in DOMAIN bets :
          IF i \in targets
          THEN /\ bets'[i].checked
               /\ ~IsNone(bets'[i].result)
               /\ [bets'[i] EXCEPT !.checked = FALSE, !.result = None] = bets[i]
          ELSE bets'[i] = bets[i]
    /\ LET body == TheVal(last'.body)
       IN /\ body.checked_count = Cardinality(targets)
          /\ body.winners_count =
                Cardinality({i \in targets : TheVal(bets'[i].result).is_winner})
          /\ body.total_prize_value = SumOver(targets, [i \in targets |-> PrizeOf(bets'[i])])

C10_CheckAllExactly ==
    [][last'.op = "check_all_bets" =>
         CheckAllFrame(CheckAllTargets(bets, last'.game, last'.arg.fetched))]_vars

\* C10 witness: one call checked a bet, skipped a bet whose fetch failed before
\* it, and left an already checked bet alone
C10_Witness ==
    /\ last.op = "check_all_bets"
    /\ TheVal(last.body).checked_count = 1
    /\ TheVal(last.body).winners_count = 1
    /\ last.src = 2
    /\ Len(bets) = 2 /\ ~bets[1].checked /\ bets[2].checked

(********************* checking one bet against any draw *******************)
\* the ntp consecutive numbers that start after shift
Window(lt, shift) ==
    Interval(shift + 1, shift + LOTTERY_CONFIG[lt].numbers_to_pick)

\* the shifts whose window lies in 1..max_number and can still meet Window(lt, 0)
Shifts(lt) ==
    0..Min(LOTTERY_CONFIG[lt].numbers_to_pick,
           LOTTERY_CONFIG[lt].max_number - LOTTERY_CONFIG[lt].numbers_to_pick)

\* a draw of the game made of windows: every overlap size with a window bet occurs
WindowDraw(lt, s1, s2) ==
    [numero |-> 1,
     listaDezenas |-> Dezenas(Window(lt, s1)),
     listaDezenasSegundoSorteio |->
        IF lt = "dupla_sena" THEN Dezenas(Window(lt, s2)) ELSE <<>>,
     listaRateioPremio |-> IF s1 % 2 = 0 THEN <<500, 40, 3, 2, 1>> ELSE <<500, 40, 3>>]

WindowOutcomes(lt) ==
    IF lt \notin VALID_LOTTERY_TYPES THEN {None}
    ELSE {None} \cup
         {Some(WindowDraw(lt, s1, s2)) :
            s1 \in Shifts(lt), s2 \in IF lt = "dupla_sena" THEN Shifts(lt) ELSE {0}}

\* one bet is stored, of any game; it is checked against any window draw
InitCheck ==
    /\ \E lt \in VALID_LOTTERY_TYPES, shift \in {0, 3} :
          LET bet == [lottery_type |-> lt, numbers |-> Window(lt, shift)]
          IN bets = <<BetDoc(1, bet, get_bet_hash(lt, bet.numbers))>>
    /\ draws = [lt \in VALID_LOTTERY_TYPES |-> {}]
    /\ nextId = 2
    /\ pending = <<>>
    /\ last = Response("start", None, <<>>, 0, None, 0, 0)
    /\ gen = NoGen

NextCheck ==
    \E bet_id \in 1..2 : \E fetched \in WindowOutcomes(GameOfBet(bets, bet_id)) :
        CheckBet(bet_id, None, fetched)

SpecCheck == InitCheck /\ [][NextCheck]_vars

\* what a check-bet answer must say about the bet it checked
CheckedBet == TheVal(FindById(bets, last.arg.bet_id))
CheckedResult == TheVal(CheckedBet.result)
FirstHits == Range(CheckedBet.numbers) \cap Range(Ints(TheVal(last.arg.fetched).listaDezenas))
SecondHits ==
    Range(CheckedBet.numbers) \cap Range(Ints(TheVal(last.arg.fetched).listaDezenasSegundoSorteio))
CheckedConfig == LOTTERY_CONFIG[CheckedBet.lottery_type]

\* the second dupla_sena draw replaces the first: it reaches min_prize and it
\* matches strictly more numbers than the first
SecondReplaces ==
    /\ CheckedBet.lottery_type = "dupla_sena"
    /\ Cardinality(SecondHits) >= CheckedConfig.min_prize
    /\ Cardinality(SecondHits) > Cardinality(FirstHits)

\* the result is stored on the bet and returned, and reports the hits against
\* one drawn set, with the tier label followed by the given suffix
ReportsHits(hits, suffix) ==
    LET r == CheckedResult
    IN /\ CheckedBet.checked
       /\ TheVal(last.body).result = r
       /\ Range(r.matches) = hits
       /\ Len(r.matches) = Cardinality(hits)
       /\ r.match_count = Cardinality(hits)
       /\ r.is_winner = (r.match_count >= CheckedConfig.min_prize)
       /\ IsNone(r.prize_tier) = (r.match_count < CheckedConfig.min_prize)
       /\ ~IsNone(r.prize_tier) =>
             TheVal(r.prize_tier) = <<CheckedConfig.prize_tiers[r.match_count]>> \o suffix

\* C7 as stated: every successful check-bet reports the intersection of the bet
\* with the drawn numbers, its size, is_winner iff the size reaches min_prize, and
\* the game's tier label exactly when it does.
C7_AsStated ==
    (last.op = "check_bet" /\ last.status = 200) => ReportsHits(FirstHits, <<>>)

\* C7 amended: the same, except that for a dupla_sena bet whose second draw
\* reaches min_prize with strictly more matches than the first, the result
\* reports the second draw's intersection and the label is followed by the
\* second-draw tag.
C7_CheckBetResult ==
    (last.op = "check_bet" /\ last.status = 200) =>
        IF SecondReplaces THEN ReportsHits(SecondHits, <<" (2o sorteio)">>)
        ELSE ReportsHits(FirstHits, <<>>)

\* C7 witness: the quina bet of the example wins the lowest tier with two hits
C7_Witness ==
    /\ last.op = "check_bet" /\ last.status = 200
    /\ CheckedBet.lottery_type = "quina"
    /\ CheckedResult.match_count = 2
    /\ CheckedResult.prize_tier = Some(<<"Duque">>)
    /\ CheckedResult.is_winner

\* C8: for a dupla_sena bet the reported match_count is the larger of the two
\* draws' match counts, whatever they are, and the result is tagged as second
\* draw exactly when the second draw's count is the strictly larger one.
C8_BestOfTwoDraws ==
    (last.op = "check_bet" /\ last.status = 200 /\ CheckedBet.lottery_type = "dupla_sena") =>
        /\ CheckedResult.match_count = Max(Cardinality(FirstHits), Cardinality(SecondHits))
        /\ (Cardinality(SecondHits) > Cardinality(FirstHits)) =>
              (~IsNone(CheckedResult.prize_tier) /\ Len(TheVal(CheckedResult.prize_tier)) = 2)

(***************************** interface claims ****************************)
\* the endpoints C4 names that take a game identifier
GameEndpoints ==
    {"get_latest_result", "get_lottery_history", "get_lottery_statistics", "get_next_draw",
     "generate_bets", "save_bet", "get_bets", "delete_all_bets"}

\* the request carries a game identifier that is not a supported game
CarriesUnknownGame(r) == Truthy(r.game) /\ TheVal(r.game) \notin VALID_LOTTERY_TYPES

\* C4: a request to one of the eight game endpoints that carries a game
\* identifier outside the supported games, and a generate-bets request with a
\* strategy outside the five strategies, is answered 400 without any Draw Source
\* call and without any database operation, and both stores are unchanged.
C4_UnknownGameRejected ==
    [][((last'.op \in GameEndpoints /\ CarriesUnknownGame(last'))
         \/ (last'.op = "generate_bets" /\ last'.arg.strategy \notin STRATEGIES)) =>
            /\ last'.status = 400
            /\ last'.src = 0 /\ last'.db = 0
            /\ bets' = bets /\ draws' = draws]_vars

\* C4 witness: a bulk delete for an unknown game was refused while both stores
\* hold data
C4_Witness ==
    /\ last.op = "delete_all_bets" /\ last.status = 400
    /\ CarriesUnknownGame(last)
    /\ Len(bets) > 0
    /\ draws["quina"] # {}

C4_WitnessStrategy ==
    /\ last.op = "generate_bets" /\ last.status = 400
    /\ last.game = Some("quina") /\ last.arg.strategy = "invalid"
    /\ draws["quina"] # {}

\* C5: check-all-bets with a game identifier that is not a supported game is
\* answered with a client error, calls the Draw Source for nothing and changes
\* no stored bet.
C5_CheckAllRejectsUnknownGame ==
    [][(last'.op = "check_all_bets" /\ CarriesUnknownGame(last')) =>
            /\ last'.status \in 400..499
            /\ last'.src = 0
            /\ bets' = bets]_vars

\* C6: latest-draw for a supported game.  A successful fetch is answered with the
\* fetched record, which is then in the draw store under its number while every
\* other stored record stays; a failed fetch is answered with the stored record
\* of the highest draw number when the game has one and with 503 otherwise, and
\* leaves the store unchanged.
C6_LatestDraw ==
    [][(last'.op = "get_latest_result" /\ last'.status # 400) =>
         LET lt == TheVal(last'.game)
             fetched == last'.arg.fetched
             stored == draws[lt]
         IN IF ~IsNone(fetched)
            THEN LET data == TheVal(fetched)
                     sent == TheVal(last'.body).data
                 IN /\ last'.status = 200
                    /\ sent.concurso = data.numero
                    /\ sent.dezenas = data.listaDezenas
                    /\ lt = "dupla_sena" =>
                          sent.dezenas_segundo_sorteio = Some(data.listaDezenasSegundoSorteio)
                    /\ \E d \in draws'[lt] :
                          d.concurso = data.numero /\ d.dezenas = data.listaDezenas
                    /\ \A d \in stored : d.concurso # data.numero => d \in draws'[lt]
                    /\ \A d \in draws'[lt] : d.concurso # data.numero => d \in stored
                    /\ \A other \in VALID_LOTTERY_TYPES \ {lt} : draws'[other] = draws[other]
            ELSE /\ draws' = draws
                 /\ IF stored # {}
                    THEN /\ last'.status = 200
                         /\ TheVal(last'.body).data \in stored
                         /\ \A d \in stored : d.concurso <= TheVal(last'.body).data.concurso
                    ELSE last'.status = 503 /\ IsNone(last'.body)]_vars

\* C6 witness: the fetch failed and, of two stored records, the higher was sent
C6_Witness ==
    /\ last.op = "get_latest_result" /\ last.status = 200
    /\ IsNone(last.arg.fetched)
    /\ Cardinality(draws[TheVal(last.game)]) = 2
    /\ TheVal(last.body).data.concurso = 2

C6_WitnessUnavailable ==
    /\ last.op = "get_latest_result" /\ last.status = 503
    /\ draws["quina"] # {} /\ draws["dupla_sena"] = {}

(*************************** bet generation ********************************)
\* x in list
Has(s, x) == \E i \in DOMAIN s : s[i] = x

\* list[:n]
Take(s, n) == SubSeq(s, 1, Min(n, Len(s)))

\* list(set(list)): the distinct elements.  Every use either sorts the outcome
\* or draws from it with random.sample, so the order a Python set gives is immaterial.
Dedup(s) ==
    Bind(s, LAMBDA list :
        Repeat(LAMBDA seen : LET x == list[seen.i]
                             IN [i |-> seen.i + 1,
                                 out |-> IF Has(seen.out, x) THEN seen.out
                                         ELSE Append(seen.out, x)],
               Len(list), [i |-> 1, out |-> <<>>]).out)

\* list.remove(x): the first occurrence goes
RECURSIVE Remove(_, _)
Remove(s, x) ==
    IF s = <<>> THEN <<>>
    ELSE IF Head(s) = x THEN Tail(s)
    ELSE <<Head(s)>> \o Remove(Tail(s), x)

\* sum(list)
RECURSIVE SumSeq(_)
SumSeq(s) == IF s = <<>> THEN 0 ELSE Head(s) + SumSeq(Tail(s))

\* sum(1 for n in nums if n % 2 == 0)
CountEven(nums) == Len(SelectSeq(nums, LAMBDA n : n % 2 = 0))

\* abs(x)
Abs(x) == IF x < 0 THEN -x ELSE x

\* dict.get(key, default) on an optional field
GetOr(field, default) == IF IsNone(field) THEN default ELSE TheVal(field)

\* truthiness of the pattern_analysis dict: it has a key
DictTruthy(d) == \E k \in DOMAIN d : ~IsNone(d[k])

(* The random module.  Its outcomes are read off a tape of TapeLen values in   *)
(* 0..Levels-1, used cyclically; pos counts the values consumed.  A step      *)
(* yields [val, pos]; pos < 0 says an exception was raised (ValueError from   *)
(* random.sample, IndexError from random.choice), which every later step      *)
(* passes on.                                                                 *)
Raise == [val |-> <<>>, pos |-> -1]

\* random._randbelow(n): the tape value scaled to 0..n-1
randbelow(tape, pos, n) == (tape[(pos % TapeLen) + 1] * n) \div Levels

\* random.choice(seq)
choice(c, pos, seq) ==
    IF pos < 0 \/ seq = <<>> THEN Raise
    ELSE [val |-> seq[randbelow(c.tape, pos, Len(seq)) + 1], pos |-> pos + 1]

\* while Cond(s): s = Step(s), for a loop that ends within fuel rounds (one that
\* does not is reported as raised)
While(Cond(_), Step(_), fuel, s) ==
    Bind(Repeat(LAMBDA x : IF Cond(x) THEN Step(x) ELSE x, fuel, s), LAMBDA out :
        IF Cond(out) THEN Raise ELSE out)

\* one round of random.sample's selection loop: pool[j] is taken and the last
\* non-selected item moves into the vacancy
SampleStep(c, s) ==
    LET m == Len(s.pool)
        j == randbelow(c.tape, s.pos, m) + 1
    IN [pos |-> s.pos + 1,
        pool |-> SubSeq([s.pool EXCEPT ![j] = s.pool[m]], 1, m - 1),
        result |-> Append(s.result, s.pool[j])]

\* random.sample(population, k)
sample(c, pos, population, k) ==
    IF pos < 0 \/ k < 0 \/ k > Len(population) THEN Raise
    ELSE Bind(Repeat(LAMBDA s : SampleStep(c, s), k,
                     [pos |-> pos, pool |-> population, result |-> <<>>]),
              LAMBDA s : [val |-> s.result, pos |-> s.pos])

\* list.extend(step outcome)
Extend(r, s) == IF r.pos < 0 \/ s.pos < 0 THEN Raise ELSE [val |-> r.val \o s.val, pos |-> s.pos]

\* list.append(step outcome)
AppendTo(r, s) == IF r.pos < 0 \/ s.pos < 0 THEN Raise ELSE [val |-> Append(r.val, s.val), pos |-> s.pos]

\* the locals generate_smart_bet derives from its arguments before choosing
GenContext(statistics, lottery_type, pattern_analysis, tape) ==
    LET config == IF lottery_type \in DOMAIN LOTTERY_CONFIG THEN LOTTERY_CONFIG[lottery_type]
                  ELSE [max_number |-> 60, numbers_to_pick |-> 6]
        max_number == config.max_number
        numbers_to_pick == config.numbers_to_pick
        given == DictTruthy(pattern_analysis)
        delayed == SelectSeq(statistics.delayed_numbers, LAMBDA d : ~IsNone(d.draws_since))
        third == max_number \div 3
    IN [max_number |-> max_number,
        numbers_to_pick |-> numbers_to_pick,
        hot_nums |-> [i \in DOMAIN statistics.hot_numbers |-> statistics.hot_numbers[i].number],
        cold_nums |-> [i \in DOMAIN statistics.cold_numbers |-> statistics.cold_numbers[i].number],
        delayed_nums |-> [i \in DOMAIN delayed |-> delayed[i].number],
        optimal_even |-> IF given THEN GetOr(pattern_analysis.optimal_even, numbers_to_pick \div 2)
                         ELSE numbers_to_pick \div 2,
        optimal_range |-> IF given
                          THEN Some(GetOr(pattern_analysis.optimal_range,
                                          <<numbers_to_pick \div 3, numbers_to_pick \div 3,
                                            numbers_to_pick \div 3>>))
                          ELSE None,
        sum_min |-> IF given THEN GetOr(pattern_analysis.optimal_sum_min, 0) ELSE 0,
        sum_max |-> IF given THEN GetOr(pattern_analysis.optimal_sum_max, max_number * numbers_to_pick)
                    ELSE max_number * numbers_to_pick,
        third |-> third,
        all_numbers |-> Interval(1, max_number),
        low_range |-> Interval(1, third),
        mid_range |-> Interval(third + 1, 2 * third),
        high_range |-> Interval(2 * third + 1, max_number),
        tape |-> tape]

\* mutant: the sum may exceed sum_max by 15 percent only
validate_bet_narrow(c, nums) ==
    /\ Len(nums) = c.numbers_to_pick
    /\ ~(/\ c.sum_min > 0 /\ c.sum_max > 0
         /\ \/ 10 * SumSeq(nums) < 8 * c.sum_min
            \/ 100 * SumSeq(nums) > 115 * c.sum_max)
    /\ ~(Abs(CountEven(nums) - c.optimal_even) > 2)

\* validate_bet(nums); total < sum_min * 0.8 and total > sum_max * 1.2 in tenths
validate_bet(c, nums) ==
    /\ Len(nums) = c.numbers_to_pick
    /\ ~(/\ c.sum_min > 0 /\ c.sum_max > 0
         /\ \/ 10 * SumSeq(nums) < 8 * c.sum_min
            \/ 10 * SumSeq(nums) > 12 * c.sum_max)
    /\ ~(Abs(CountEven(nums) - c.optimal_even) > 2)

\* hot_nums[:10]
hot_weight(c) == Take(c.hot_nums, 10)

\* [n for n in range(1, max_number + 1) if n not in result]
Available(c, result) == SelectSeq(c.all_numbers, LAMBDA n : ~Has(result, n))

\* one range of generate_with_patterns: the hot numbers of the range first, then
\* the others, and up to target of those not yet in result are sampled
SelectFromRange(c, r, range, target) ==
    IF r.pos < 0 THEN Raise
    ELSE
    Bind(hot_weight(c), LAMBDA hot :
    Bind(SelectSeq(hot, LAMBDA n : Has(range, n)), LAMBDA range_hot :
    Bind(range_hot \o SelectSeq(range, LAMBDA n : ~Has(range_hot, n)), LAMBDA range_pool :
    Bind(SelectSeq(range_pool, LAMBDA n : ~Has(r.val, n)), LAMBDA available :
        IF range_pool # <<>> /\ target > 0
        THEN Bind(sample(c, r.pos, available, Min(target, Len(available))),
                  LAMBDA picked : Extend(r, picked))
        ELSE r))))

\* len(result) < numbers_to_pick with numbers left to add
Unfilled(c, r) ==
    r.pos >= 0 /\ Len(r.val) < c.numbers_to_pick /\ Available(c, r.val) # <<>>

\* one round of "Fill remaining if needed" of generate_with_patterns
FillPreferHotStep(c, r) ==
    Bind(Available(c, r.val), LAMBDA available :
    Bind(hot_weight(c), LAMBDA hot :
    Bind(SelectSeq(hot, LAMBDA n : Has(available, n)), LAMBDA hot_available :
    Bind(choice(c, r.pos, IF hot_available # <<>> THEN hot_available ELSE available),
         LAMBDA picked : AppendTo(r, picked)))))

\* "Fill remaining if needed": a number is added each round
FillPreferHot(c, r) ==
    IF r.pos < 0 THEN Raise
    ELSE While(LAMBDA x : Unfilled(c, x), LAMBDA x : FillPreferHotStep(c, x),
               c.numbers_to_pick, r)

\* result.remove(random.choice(mine)); result.append(random.choice(hot or any of theirs))
SwapOne(c, r, mine, theirs_available) ==
    Bind(hot_weight(c), LAMBDA hot :
    Bind(choice(c, r.pos, mine), LAMBDA gone :
    Bind(SelectSeq(theirs_available, LAMBDA n : Has(hot, n)), LAMBDA hot_theirs :
    Bind(choice(c, gone.pos, IF hot_theirs # <<>> THEN hot_theirs ELSE theirs_available),
         LAMBDA come :
        IF gone.pos < 0 \/ come.pos < 0 THEN Raise
        ELSE [val |-> Append(Remove(r.val, gone.val), come.val), pos |-> come.pos]))))

\* one round of "Try to adjust even/odd balance" of generate_with_patterns
BalanceStep(c, r) ==
    IF r.pos < 0 THEN Raise
    ELSE
    Bind(CountEven(r.val), LAMBDA even_count :
        IF ~(Abs(even_count - c.optimal_even) > 1) THEN r
        ELSE IF even_count > c.optimal_even
        THEN Bind(SelectSeq(r.val, LAMBDA n : n % 2 = 0), LAMBDA evens :
             Bind(SelectSeq(c.all_numbers, LAMBDA n : n % 2 = 1 /\ ~Has(r.val, n)),
                  LAMBDA odds_available :
                 IF evens # <<>> /\ odds_available # <<>>
                 THEN SwapOne(c, r, evens, odds_available) ELSE r))
        ELSE Bind(SelectSeq(r.val, LAMBDA n : n % 2 = 1), LAMBDA odds :
             Bind(SelectSeq(c.all_numbers, LAMBDA n : n % 2 = 0 /\ ~Has(r.val, n)),
                  LAMBDA evens_available :
                 IF odds # <<>> /\ evens_available # <<>>
                 THEN SwapOne(c, r, odds, evens_available) ELSE r)))

\* mutant: the balance is adjusted once
BalanceLoopOnce(c, r) == BalanceStep(c, r)

\* while abs(even_count - optimal_even) > 1 and attempts < 10: a round that finds
\* the balance within 1 changes nothing, and so do the rounds after it
BalanceLoop(c, r) == Repeat(LAMBDA x : BalanceStep(c, x), 10, r)

\* sorted(result)[:numbers_to_pick]
SortedPicks(c, r) ==
    IF r.pos < 0 THEN Raise
    ELSE [val |-> Take(Sorted(r.val), c.numbers_to_pick), pos |-> r.pos]

\* generate_with_patterns()
generate_with_patterns(c, pos) ==
    LET given == ~IsNone(c.optimal_range)
        third_of == c.numbers_to_pick \div 3
        target_low == IF given THEN TheVal(c.optimal_range)[1] ELSE third_of
        target_mid0 == IF given THEN TheVal(c.optimal_range)[2] ELSE third_of
        target_high == IF given THEN TheVal(c.optimal_range)[3] ELSE third_of
        remainder == c.numbers_to_pick - target_low - target_mid0 - target_high
        target_mid == IF remainder > 0 THEN target_mid0 + remainder ELSE target_mid0
    IN
    Bind([val |-> <<>>, pos |-> pos], LAMBDA start :
    Bind(SelectFromRange(c, start, c.low_range, target_low), LAMBDA low :
    Bind(SelectFromRange(c, low, c.mid_range, target_mid), LAMBDA mid :
    Bind(SelectFromRange(c, mid, c.high_range, target_high), LAMBDA high :
    Bind(FillPreferHot(c, high), LAMBDA filled :
    Bind(SortedPicks(c, filled), LAMBDA picks :
    Bind(BalanceLoop(c, picks), LAMBDA balanced :
        SortedPicks(c, balanced))))))))

\* one round of the "smart" for-loop; s is [pos, best_bet, best_score]
SmartStep(c, s) ==
    IF s.pos < 0 THEN s
    ELSE
    Bind(generate_with_patterns(c, s.pos), LAMBDA candidate :
    Bind(hot_weight(c), LAMBDA hot :
    Bind(Len(SelectSeq(candidate.val, LAMBDA n : Has(hot, n))), LAMBDA score :
        IF candidate.pos >= 0 /\ validate_bet(c, candidate.val) /\ score > s.best_score
        THEN [pos |-> candidate.pos, best_bet |-> Some(candidate.val), best_score |-> score]
        ELSE [s EXCEPT !.pos = candidate.pos])))

\* strategy "smart": the best-scoring valid candidate of 50, and
\* selected = best_bet if best_bet else generate_with_patterns()
Smart(c, pos) ==
    Bind(Repeat(LAMBDA s : SmartStep(c, s), 50,
                [pos |-> pos, best_bet |-> None, best_score |-> -1]), LAMBDA best :
        IF best.pos < 0 THEN Raise
        ELSE IF ~IsNone(best.best_bet) /\ TheVal(best.best_bet) # <<>>
        THEN [val |-> TheVal(best.best_bet), pos |-> best.pos]
        ELSE generate_with_patterns(c, best.pos))

\* a candidate of "hot": numbers_to_pick of hot_nums[:15] and max_number // 4 random numbers
HotCandidate(c, pos) ==
    Bind(sample(c, pos, c.all_numbers, c.max_number \div 4), LAMBDA extra :
    Bind(Dedup(Take(c.hot_nums, 15) \o extra.val), LAMBDA pool :
        sample(c, extra.pos, pool, Min(c.numbers_to_pick, Len(pool)))))

\* the pool of "cold": cold and delayed numbers, topped up with all the other
\* numbers when it is shorter than a bet
ColdPool(c) ==
    Bind(Dedup(c.cold_nums \o c.delayed_nums), LAMBDA pool :
        IF Len(pool) < c.numbers_to_pick
        THEN pool \o SelectSeq(c.all_numbers, LAMBDA n : ~Has(pool, n))
        ELSE pool)

\* one round of "Fill if needed" of the coverage strategy: random.choice(available) unguarded
FillAnyStep(c, r) ==
    Bind(Available(c, r.val), LAMBDA available :
    Bind(choice(c, r.pos, available), LAMBDA picked : AppendTo(r, picked)))

\* while len(candidate) < numbers_to_pick: a number is added each round
FillAny(c, r) ==
    IF r.pos < 0 THEN Raise
    ELSE While(LAMBDA x : x.pos >= 0 /\ Len(x.val) < c.numbers_to_pick,
               LAMBDA x : FillAnyStep(c, x), c.numbers_to_pick, r)

\* candidate.extend(random.sample(range, picks)) when the guard holds
ExtendIf(c, r, guard, range, picks) ==
    IF r.pos >= 0 /\ guard
    THEN Bind(sample(c, r.pos, range, picks), LAMBDA picked : Extend(r, picked))
    ELSE r

\* a candidate of "coverage"
CoverageCandidate(c, pos) ==
    LET third_of == c.numbers_to_pick \div 3
        low_picks == Min(IF ~IsNone(c.optimal_range) THEN TheVal(c.optimal_range)[1] ELSE third_of,
                         Len(c.low_range))
        mid_picks == Min(IF ~IsNone(c.optimal_range) THEN TheVal(c.optimal_range)[2] ELSE third_of,
                         Len(c.mid_range))
        high_picks == c.numbers_to_pick - low_picks - mid_picks
    IN
    Bind([val |-> <<>>, pos |-> pos], LAMBDA start :
    Bind(ExtendIf(c, start, low_picks > 0, c.low_range, low_picks), LAMBDA low :
    Bind(ExtendIf(c, low, mid_picks > 0, c.mid_range, mid_picks), LAMBDA mid :
    Bind(ExtendIf(c, mid, high_picks > 0 /\ Len(c.high_range) >= high_picks,
                  c.high_range, high_picks), LAMBDA high :
        FillAny(c, high)))))

\* the candidate a round of the for-loop of "hot", "cold", "balanced" or
\* "coverage" builds; pool is the pool of "cold"
Candidate(c, strategy, pool, pos) ==
    CASE strategy = "hot" -> HotCandidate(c, pos)
      [] strategy = "cold" ->
            sample(c, pos, Take(pool, Max(30, c.numbers_to_pick + 10)),
                   Min(c.numbers_to_pick, Len(pool)))
      [] strategy = "balanced" -> generate_with_patterns(c, pos)
      [] strategy = "coverage" -> CoverageCandidate(c, pos)

\* for _ in range(20), range(30) for "balanced"
Rounds(strategy) == IF strategy = "balanced" THEN 30 ELSE 20

\* one round of the for-loop: if validate_bet(candidate) then selected = candidate
\* and break, so nothing happens in the rounds after
Round(c, strategy, pool, selected) ==
    IF selected.pos < 0 \/ selected.val # <<>> THEN selected
    ELSE Bind(Candidate(c, strategy, pool, selected.pos), LAMBDA candidate :
         IF candidate.pos < 0 THEN Raise
         ELSE IF validate_bet(c, candidate.val) THEN candidate
         ELSE [val |-> <<>>, pos |-> candidate.pos])

\* if not selected: selected = ...
Fallback(c, strategy, pool, pos) ==
    CASE strategy = "hot" ->
            sample(c, pos, IF Len(c.hot_nums) >= 20 THEN Take(c.hot_nums, 20) ELSE c.all_numbers,
                   c.numbers_to_pick)
      [] strategy = "cold" -> sample(c, pos, pool, Min(c.numbers_to_pick, Len(pool)))
      [] strategy = "balanced" -> generate_with_patterns(c, pos)
      [] strategy = "coverage" -> generate_with_patterns(c, pos)

\* strategies "hot", "cold", "balanced" and "coverage": the first candidate that
\* validates, else the fallback
Search(c, strategy, pos) ==
    Bind(IF strategy = "cold" THEN ColdPool(c) ELSE <<>>, LAMBDA pool :
    Bind(Repeat(LAMBDA selected : Round(c, strategy, pool, selected), Rounds(strategy),
                [val |-> <<>>, pos |-> pos]), LAMBDA selected :
        IF selected.pos < 0 THEN Raise
        ELSE IF selected.val # <<>> THEN selected
        ELSE Fallback(c, strategy, pool, selected.pos)))

\* one round of "Fill if we don't have enough" at the end of generate_smart_bet
FillOrBreakStep(c, r) ==
    Bind(Available(c, r.val), LAMBDA available :
    Bind(choice(c, r.pos, available), LAMBDA picked : AppendTo(r, picked)))

\* "Fill if we don't have enough": a number is added each round, and the loop
\* breaks when none is available
FillOrBreak(c, r) ==
    IF r.pos < 0 THEN Raise
    ELSE While(LAMBDA x : Unfilled(c, x), LAMBDA x : FillOrBreakStep(c, x),
               c.numbers_to_pick, r)

\* what the strategy branch leaves in selected
Selected(c, strategy) ==
    CASE strategy = "smart" -> Smart(c, 0)
      [] strategy \in {"hot", "cold", "balanced", "coverage"} -> Search(c, strategy, 0)
      [] OTHER -> [val |-> <<>>, pos |-> 0]

\* generate_smart_bet(statistics, lottery_type, strategy, pattern_analysis), with the
\* tape its random choices are read from; raised says it ended in an exception
generate_smart_bet(statistics, lottery_type, strategy, pattern_analysis, tape) ==
    Bind(GenContext(statistics, lottery_type, pattern_analysis, tape), LAMBDA c :
    Bind(Selected(c, strategy), LAMBDA chosen :
    Bind(IF chosen.pos < 0 THEN Raise
         ELSE [val |-> Take(Sorted(Dedup(chosen.val)), c.numbers_to_pick), pos |-> chosen.pos],
         LAMBDA unique :
    Bind(FillOrBreak(c, unique), LAMBDA selected :
        [raised |-> selected.pos < 0,
         lottery_type |-> lottery_type,
         numbers |-> Sorted(Sorted(selected.val)),
         strategy |-> strategy]))))

(************************ generator inputs *********************************)
\* the tapes of random values
Tapes == [1..TapeLen -> 0..(Levels - 1)]

\* a hot_numbers / cold_numbers entry list for the numbers given
NumberEntries(nums) == [i \in DOMAIN nums |-> [number |-> nums[i]]]

\* a delayed_numbers entry list; draws_since is None for "never"
DelayedEntries(nums, draws_since) ==
    [i \in DOMAIN nums |-> [number |-> nums[i], draws_since |-> draws_since]]

\* Frequency Snapshots calculate_statistics gives for a game: of no draws; of the
\* one draw 1..numbers_to_pick; of a long history whose frequent numbers are the
\* highest and whose rare ones are the lowest, some unseen for 7 draws
Snapshots(lottery_type) ==
    LET M == LOTTERY_CONFIG[lottery_type].max_number
        N == LOTTERY_CONFIG[lottery_type].numbers_to_pick
    IN {[hot_numbers |-> <<>>, cold_numbers |-> <<>>, delayed_numbers |-> <<>>],
        [hot_numbers |-> NumberEntries(Interval(1, N)),
         cold_numbers |-> NumberEntries(Take(Interval(N + 1, M) \o Interval(1, N), 15)),
         delayed_numbers |-> DelayedEntries(Take(Interval(N + 1, M), 15), None)],
        [hot_numbers |-> NumberEntries([i \in 1..15 |-> M + 1 - i]),
         cold_numbers |-> NumberEntries(Interval(1, 15)),
         delayed_numbers |-> DelayedEntries(Interval(1, 3), None)
                             \o DelayedEntries(Interval(4, 9), Some(7))]}

\* the dict analyze_winning_patterns returns, as far as the generator reads it
Profile(optimal_even, mean_sum, optimal_range) ==
    [optimal_even |-> Some(optimal_even),
     optimal_sum_min |-> Some((mean_sum * 85) \div 100),
     optimal_sum_max |-> Some((mean_sum * 115) \div 100),
     optimal_range |-> Some(optimal_range)]

\* {}: no draw qualified
NoProfile ==
    [optimal_even |-> None, optimal_sum_min |-> None, optimal_sum_max |-> None,
     optimal_range |-> None]

\* rounded low/mid/high averages that sum to numbers_to_pick, to one more
\* (low + mid alone exceeding it where the game allows), and to one less
RangeTargets(lottery_type) ==
    CASE lottery_type = "quina" -> [exact |-> <<2, 2, 1>>, over |-> <<2, 4, 0>>, under |-> <<2, 2, 0>>]
      [] lottery_type = "lotofacil" -> [exact |-> <<5, 5, 5>>, over |-> <<8, 8, 0>>, under |-> <<2, 4, 8>>]
      [] OTHER -> [exact |-> <<2, 2, 2>>, over |-> <<2, 2, 3>>, under |-> <<0, 0, 5>>]

\* Pattern Profiles of a game: none; of typical draws; with targets summing to
\* one more and one less than a bet; of draws that were all 1..numbers_to_pick
PatternProfiles(lottery_type) ==
    LET M == LOTTERY_CONFIG[lottery_type].max_number
        N == LOTTERY_CONFIG[lottery_type].numbers_to_pick
        typical == (N * (M + 1)) \div 2
        lowest == (N * (N + 1)) \div 2
        t == RangeTargets(lottery_type)
    IN {NoProfile,
        Profile(N \div 2, typical, t.exact),
        Profile(N \div 2, typical, t.over),
        Profile(N \div 2, typical, t.under),
        Profile(N \div 2, lowest, <<Min(N, M \div 3), N - Min(N, M \div 3), 0>>)}

\* one call of generate_smart_bet is to be made
InitGen ==
    /\ bets = <<>>
    /\ draws = [lt \in VALID_LOTTERY_TYPES |-> {}]
    /\ nextId = 1
    /\ pending = <<>>
    /\ last = Response("start", None, <<>>, 0, None, 0, 0)
    /\ \E lottery_type \in VALID_LOTTERY_TYPES, strategy \in STRATEGIES, tape \in Tapes :
          \E statistics \in Snapshots(lottery_type),
             pattern_analysis \in PatternProfiles(lottery_type) :
             gen = [in |-> Some([statistics |-> statistics, lottery_type |-> lottery_type,
                                 strategy |-> strategy, pattern_analysis |-> pattern_analysis,
                                 tape |-> tape]),
                    out |-> None]

\* the call is made
Generate ==
    /\ ~IsNone(gen.in) /\ IsNone(gen.out)
    /\ LET inp == TheVal(gen.in)
       IN gen' = [gen EXCEPT !.out = Some(generate_smart_bet(inp.statistics, inp.lottery_type,
                                              inp.strategy, inp.pattern_analysis, inp.tape))]
    /\ UNCHANGED <<bets, draws, nextId, pending, last>>

NextGen == Generate

SpecGen == InitGen /\ [][NextGen]_vars

(***************************** claim C1 ************************************)
\* numbers are sorted ascending and are exactly numbers_to_pick distinct
\* integers in [1, max_number]
ValidShape(lottery_type, numbers) ==
    /\ Len(numbers) = LOTTERY_CONFIG[lottery_type].numbers_to_pick
    /\ \A i \in DOMAIN numbers : numbers[i] \in 1..LOTTERY_CONFIG[lottery_type].max_number
    /\ \A i \in DOMAIN numbers : \A j \in DOMAIN numbers : i < j => numbers[i] < numbers[j]

\* C1: for every game, strategy, Frequency Snapshot (the empty one included) and
\* Pattern Profile (the absent one and those whose low/mid/high targets do not
\* sum to numbers_to_pick included), and whatever the random choices,
\* generate_smart_bet returns (it does not raise) a bet of its game whose numbers
\* are sorted ascending and are exactly numbers_to_pick distinct integers in
\* [1, max_number].
C1_GeneratedShape ==
    ~IsNone(gen.out) =>
        /\ ~TheVal(gen.out).raised
        /\ TheVal(gen.out).lottery_type = TheVal(gen.in).lottery_type
        /\ ValidShape(TheVal(gen.in).lottery_type, TheVal(gen.out).numbers)

\* a bet was generated from the empty snapshot and a profile whose targets do not
\* sum to numbers_to_pick
C1_Witness ==
    /\ ~IsNone(gen.out)
    /\ TheVal(gen.in).statistics.hot_numbers = <<>>
    /\ ~IsNone(TheVal(gen.in).pattern_analysis.optimal_range)
    /\ LET t == TheVal(TheVal(gen.in).pattern_analysis.optimal_range)
       IN t[1] + t[2] + t[3] # LOTTERY_CONFIG[TheVal(gen.in).lottery_type].numbers_to_pick
    /\ ValidShape(TheVal(gen.in).lottery_type, TheVal(gen.out).numbers)

\* a bet was generated with no profile at all
C1_WitnessNoProfile ==
    /\ ~IsNone(gen.out)
    /\ TheVal(gen.in).pattern_analysis = NoProfile
    /\ TheVal(gen.in).strategy = "coverage"
    /\ ValidShape(TheVal(gen.in).lottery_type, TheVal(gen.out).numbers)

(****************************** C11: delete ********************************)
\* the stored bets a bulk delete with this filter is about: all of them when the
\* filter is absent (or empty), those of the game otherwise
InFilter(b, filter) == IsNone(filter) \/ TheVal(filter) = "" \/ b.lottery_type = TheVal(filter)

\* the positions of store whose bet is dropped, in order, give rest
DropsExactly(store, rest, dropped) ==
    LET kept == SelectSeq([i \in DOMAIN store |-> i], LAMBDA i : i \notin dropped)
    IN /\ Len(rest) = Len(kept)
       /\ \A k \in DOMAIN kept : rest[k] = store[kept[k]]

\* C11: delete-by-id of a stored id removes that one bet and leaves every other
\* bet unchanged; delete-by-id of an unknown id is answered 404 and leaves the
\* store unchanged; a bulk delete removes exactly the bets that match its
\* optional game filter and reports their number as deleted_count, so that no
\* matching bet is left and the same bulk delete again is answered 200 with 0.
C11_DeleteExactly ==
    [][/\ last'.op = "delete_bet" =>
            LET hit == {i \in DOMAIN bets : bets[i].id = last'.arg.bet_id}
            IN IF hit = {}
               THEN last'.status = 404 /\ bets' = bets
               ELSE /\ last'.status = 200
                    /\ Cardinality(hit) = 1
                    /\ DropsExactly(bets, bets', hit)
       /\ (last'.op = "delete_all_bets" /\ last'.status # 400) =>
            LET hit == {i \in DOMAIN bets : InFilter(bets[i], last'.game)}
            IN /\ last'.status = 200
               /\ DropsExactly(bets, bets', hit)
               /\ TheVal(last'.body).deleted_count = Cardinality(hit)
               /\ \A i \in DOMAIN bets' : ~InFilter(bets'[i], last'.game)
               /\ (hit = {}) => (TheVal(last'.body).deleted_count = 0 /\ bets' = bets)]_vars

\* C11 witness: the older of two stored bets was deleted by id and the newer one
\* is still stored
C11_Witness ==
    /\ last.op = "delete_bet" /\ last.status = 200
    /\ Len(bets) = 1
    /\ bets[1].id > last.arg.bet_id

\* a bulk delete with a game filter removed one bet and left one of another game
C11_WitnessBulk ==
    /\ last.op = "delete_all_bets" /\ last.status = 200
    /\ ~IsNone(last.game) /\ TheVal(last.game) = "quina"
    /\ TheVal(last.body).deleted_count = 1
    /\ Len(bets) = 1

\* the same bulk delete again: nothing matches and 0 is reported
C11_WitnessAgain ==
    /\ last.op = "delete_all_bets" /\ last.status = 200
    /\ ~IsNone(last.game) /\ TheVal(last.game) = "quina"
    /\ TheVal(last.body).deleted_count = 0
    /\ Len(bets) = 1

(*************************** history assembler *****************************)
\* What the Draw Source does during one fetch_multiple_results call: the outcome
\* of the latest-draw call and the draw numbers whose fetch fails.  The latest
\* draw is one of the draws the source serves by number, the draw published
\* after them, or a draw far enough ahead for the backward walk to meet its call
\* limit before it meets draw 1 (the source serves none of the draws between).
HistOutcomes(lt) ==
    {[latest |-> None, fails |-> {}]}
    \cup {[latest |-> Some(SourceDraw(lt, n)), fails |-> f] :
              n \in 1..(MaxConcurso + 1), f \in SUBSET (1..MaxConcurso)}
    \cup {[latest |-> Some(SourceDraw(lt, MAX_WALK + 2)), fails |-> {}]}

\* the endpoints that call fetch_multiple_results, over the draw cache of one game
NextHist ==
    \E source \in HistOutcomes("dupla_sena") :
       \/ \E limit \in {1, 2} :
             GetLotteryHistory("dupla_sena", limit, source.latest, source.fails)
       \/ GetLotteryStatistics("dupla_sena", source.latest, source.fails)

SpecHist == Init /\ [][NextHist]_vars

\* the requests answered through fetch_multiple_results, and the count they pass
Assembles(r) ==
    r.op \in {"get_lottery_history", "get_lottery_statistics"} /\ r.status = 200

CountOf(r) == IF r.op = "get_lottery_history" THEN r.arg.limit ELSE STATS_COUNT

\* C12: when the fetch of the latest draw fails, fetch_multiple_results returns
\* the min(count, number stored) stored records of the game with the highest
\* draw numbers, in descending draw-number order (none when the store is empty),
\* calls the Draw Source for nothing else, answers without error and leaves the
\* draw store unchanged.
C12_DegradedHistory ==
    [][(Assembles(last') /\ IsNone(last'.arg.latest)) =>
         LET stored == draws[TheVal(last'.game)]
             records == TheVal(last'.body).records
         IN /\ Len(records) = Min(CountOf(last'), Cardinality(stored))
            /\ \A i \in DOMAIN records : records[i] \in stored
            /\ \A i, j \in DOMAIN records : i < j => records[i].concurso > records[j].concurso
            /\ \A d \in stored \ Range(records) :
                  \A i \in DOMAIN records : d.concurso < records[i].concurso
            /\ last'.src = 1
            /\ TheVal(last'.body).asked = {}
            /\ draws' = draws]_vars

\* C12 witness: the latest fetch failed, one record was asked for and, of several
\* stored records, the one with the highest draw number was returned
C12_Witness ==
    /\ Assembles(last) /\ IsNone(last.arg.latest)
    /\ CountOf(last) = 1
    /\ Cardinality(draws[TheVal(last.game)]) >= 2
    /\ Len(TheVal(last.body).records) = 1
    /\ \A d \in draws[TheVal(last.game)] : d.concurso <= TheVal(last.body).records[1].concurso

\* the latest fetch failed over an empty store: the empty sequence, no error
C12_WitnessEmpty ==
    /\ Assembles(last) /\ IsNone(last.arg.latest)
    /\ draws[TheVal(last.game)] = {}
    /\ TheVal(last.body).records = <<>>

\* the draw numbers one call walks over after the latest draw L
Candidates(L, count) == {n \in 1..(L - 1) : L - n <= Min(count, 50) - 1}

\* the stored record of draw n of a game
StoredDraw(stored, n) == CHOOSE d \in stored : d.concurso = n

\* C13: when the latest fetch succeeds with draw number L, the returned sequence
\* starts with the fetched draw L and is strictly descending in draw number (so
\* free of duplicates); it holds draw L-i (1 <= i <= min(count,50)-1, L-i > 0)
\* iff that draw was in the store, and then as stored, or its fetch succeeded,
\* and then as fetched; a draw whose fetch failed is the only one left out, the
\* lower draw numbers are still walked; no draw number <= 0 is looked at.
C13_SuccessHistory ==
    [][(Assembles(last') /\ ~IsNone(last'.arg.latest)) =>
         LET lt == TheVal(last'.game)
             stored == draws[lt]
             latest == TheVal(last'.arg.latest)
             L == latest.numero
             fails == last'.arg.fails
             records == TheVal(last'.body).records
             known == {d.concurso : d \in stored}
             got == {n \in Candidates(L, CountOf(last')) :
                        n \in known \/ ~IsNone(FetchDraw(lt, n, fails))}
         IN /\ Len(records) >= 1 /\ records[1] = latest
            /\ \A i, j \in DOMAIN records :
                  i < j => DrawNumber(records[i]) > DrawNumber(records[j])
            /\ {DrawNumber(records[i]) : i \in DOMAIN records} = {L} \cup got
            /\ \A i \in DOMAIN records \ {1} :
                  LET n == DrawNumber(records[i])
                  IN records[i] = IF n \in known THEN StoredDraw(stored, n)
                                  ELSE SourceDraw(lt, n)
            /\ \A n \in TheVal(last'.body).asked : n > 0]_vars

\* C13 witness: from latest draw 3 the fetch of draw 2 failed and draw 1, which
\* was not stored, was fetched and returned after draw 3
C13_Witness ==
    /\ Assembles(last) /\ ~IsNone(last.arg.latest)
    /\ last.arg.fails = {2}
    /\ TheVal(last.body).asked = {1, 2}
    /\ Len(TheVal(last.body).records) = 2
    /\ DrawNumber(TheVal(last.body).records[1]) = 3
    /\ DrawNumber(TheVal(last.body).records[2]) = 1

\* the walk ended at its limit: draw 2 is stored and was not reached, draw 3 was
C13_WitnessLimit ==
    /\ Assembles(last) /\ ~IsNone(last.arg.latest)
    /\ TheVal(last.arg.latest).numero = MAX_WALK + 2
    /\ CountOf(last) = STATS_COUNT
    /\ {DrawNumber(TheVal(last.body).records[i]) : i \in DOMAIN TheVal(last.body).records}
          = {MAX_WALK + 2, 3}
    /\ \E d \in draws[TheVal(last.game)] : d.concurso = 2

\* C14: a fetch_multiple_results call with count >= 1 makes at most min(count, 50)
\* Draw Source calls, one for the latest draw and one for each historical draw
\* number it asks for; it asks for no draw number that is in the draw store; and
\* every record it fetched is in the store under its draw number when it returns.
C14_SourceCalls ==
    [][Assembles(last') =>
         LET lt == TheVal(last'.game)
             stored == draws[lt]
             asked == TheVal(last'.body).asked
             fails == last'.arg.fails
             fetched == {SourceDraw(lt, n) : n \in {m \in asked : ~IsNone(FetchDraw(lt, m, fails))}}
                        \cup Range(last'.arg.latest)
         IN /\ CountOf(last') >= 1
            /\ last'.src <= Min(CountOf(last'), 50)
            /\ last'.src = 1 + Cardinality(asked)
            /\ \A d \in stored : d.concurso \notin asked
            /\ \A data \in fetched :
                  \E d \in draws'[lt] :
                     /\ d.concurso = data.numero
                     /\ d.dezenas = data.listaDezenas
                     /\ d.dezenas_segundo_sorteio = Some(data.listaDezenasSegundoSorteio)
            /\ \A d \in stored :
                  d.concurso \notin {data.numero : data \in fetched} => d \in draws'[lt]]_vars

\* C14 witness: a walk of count 100 from a far latest draw made exactly its 50
\* calls, asked for neither of draws 2 and 1 although draw 1 is not stored, and
\* stored the latest draw
C14_Witness ==
    /\ Assembles(last) /\ ~IsNone(last.arg.latest)
    /\ last.src = 50
    /\ CountOf(last) = STATS_COUNT
    /\ Cardinality(TheVal(last.body).asked) = 49
    /\ TheVal(last.body).asked \cap {1, 2} = {}
    /\ \A d \in draws[TheVal(last.game)] : d.concurso # 1
    /\ \E d \in draws[TheVal(last.game)] : d.concurso = MAX_WALK + 2

\* a historical draw was fetched and stored, another was taken from the store
C14_WitnessMixed ==
    /\ Assembles(last) /\ ~IsNone(last.arg.latest)
    /\ TheVal(last.arg.latest).numero = 3
    /\ TheVal(last.body).asked = {1}
    /\ Len(TheVal(last.body).records) = 3
    /\ Cardinality(draws[TheVal(last.game)]) = 3

(************************** frequency analyzer *****************************)
\* sorted(s, key=...): a stable sort of s by ascending key[x].  The elements are
\* taken in order and each goes behind the sorted ones whose key is not higher.
InsertByKey(x, s, key) ==
    LET before == Cardinality({i \in DOMAIN s : key[s[i]] <= key[x]})
    IN SubSeq(s, 1, before) \o <<x>> \o SubSeq(s, before + 1, Len(s))

SortedByKey(s, key) ==
    Repeat(LAMBDA st : [out |-> InsertByKey(s[st.i], st.out, key), i |-> st.i + 1],
           Len(s), [out |-> <<>>, i |-> 1]).out

\* result.get("dezenas_segundo_sorteio", result.get("listaDezenasSegundoSorteio", []));
\* a cached document has the first key only when it stores a second draw
SecondDezenas(result) ==
    IF "dezenas_segundo_sorteio" \in DOMAIN result /\ ~IsNone(result.dezenas_segundo_sorteio)
    THEN TheVal(result.dezenas_segundo_sorteio)
    ELSE IF "listaDezenasSegundoSorteio" \in DOMAIN result
    THEN result.listaDezenasSegundoSorteio
    ELSE <<>>

\* the numbers one record adds to all_numbers
RecordNumbers(result, lottery_type) ==
    Ints(DrawDezenas(result))
    \o (IF lottery_type = "dupla_sena" THEN Ints(SecondDezenas(result)) ELSE <<>>)

\* all_numbers after the loop over results
RECURSIVE AllNumbers(_, _)
AllNumbers(results, lottery_type) ==
    IF results = <<>> THEN <<>>
    ELSE RecordNumbers(Head(results), lottery_type) \o AllNumbers(Tail(results), lottery_type)

\* last_seen[num] after the loop: the index of the first record whose dezenas
\* hold num, -1 when none does
LastSeen(results, num) ==
    LET hits == {i \in DOMAIN results : num \in Range(Ints(DrawDezenas(results[i])))}
    IN IF hits = {} THEN -1 ELSE (CHOOSE i \in hits : \A j \in hits : i <= j) - 1

\* the values of a function on 1..n as a list, each computed once
List(f) == f \o <<>>

\* last_seen after the loop, for the numbers 1..max_number
LastSeenList(results, max_number) == List([n \in 1..max_number |-> LastSeen(results, n)])

\* Counter(all_numbers): the count of each number of 1..max_number
Frequency(all_numbers, max_number) ==
    List([n \in 1..max_number |-> Cardinality({i \in DOMAIN all_numbers : all_numbers[i] = n})])

\* mutant: the least counted numbers come first
HotKeyAscending(f) == f

\* the sort key of most_common: the count, highest first
HotKey(f) == -f

\* frequency.most_common(15): the counted numbers, which the Counter holds in the
\* order of their first occurrence, stably sorted by descending count
MostCommon(all_numbers, frequency, n) ==
    Bind(List([x \in 1..Len(frequency) |-> HotKey(frequency[x])]),
         LAMBDA key : Bind(Dedup(all_numbers), LAMBDA counted : Take(SortedByKey(counted, key), n)))

\* sorted(all_freq, key=lambda x: x[1])[:15], as numbers
LeastCommon(numbers, frequency, n) ==
    Bind(numbers, LAMBDA all_freq : Take(SortedByKey(all_freq, frequency), n))

\* mutant: the cold ranking is taken over the drawn numbers
DrawnNumbers(all_numbers, max_number) == Dedup(all_numbers)

\* the numbers of all_freq: range(1, max_number + 1)
FullRange(all_numbers, max_number) == Interval(1, max_number)

\* mutant: "never" keeps its -1 in the sort
DelayKeyRaw(d) == d

\* key=lambda x: x[1] if x[1] >= 0 else 999
DelayKey(d) == IF d >= 0 THEN d ELSE 999

\* sorted([... if last_seen[n] == -1 or last_seen[n] > 5], key=..., reverse=True)[:15],
\* as numbers
Delayed(max_number, last_seen, n) ==
    Bind(List([x \in 1..max_number |-> -DelayKey(last_seen[x])]),
         LAMBDA key :
            Bind(SelectSeq(Interval(1, max_number),
                           LAMBDA x : last_seen[x] = -1 \/ last_seen[x] > 5),
                 LAMBDA stale : Take(SortedByKey(stale, key), n)))

\* the entries of hot_numbers and cold_numbers
FrequencyEntries(nums, frequency) ==
    Bind(nums, LAMBDA l : [i \in DOMAIN l |-> [number |-> l[i], frequency |-> frequency[l[i]]]])

\* range_dist after the loop over all_numbers
RangeDistribution(all_numbers, max_number) ==
    LET third == max_number \div 3
    IN [low |-> Len(SelectSeq(all_numbers, LAMBDA n : n <= third)),
        medium |-> Len(SelectSeq(all_numbers, LAMBDA n : n > third /\ n <= 2 * third)),
        high |-> Len(SelectSeq(all_numbers, LAMBDA n : n > 2 * third))]

\* calculate_statistics from the frequency count on, without the percentages
Snapshot(results, max_number, all_numbers, last_seen, frequency) ==
    LET hot == MostCommon(all_numbers, frequency, 15)
        cold == LeastCommon(FullRange(all_numbers, max_number), frequency, 15)
        delayed == Delayed(max_number, last_seen, 15)
    IN [hot_numbers |-> FrequencyEntries(hot, frequency),
        cold_numbers |-> FrequencyEntries(cold, frequency),
        delayed_numbers |->
            Bind(delayed, LAMBDA d :
                [i \in DOMAIN d |->
                    [number |-> d[i],
                     draws_since |-> IF last_seen[d[i]] >= 0
                                     THEN Some(last_seen[d[i]]) ELSE None]]),
        range_distribution |-> RangeDistribution(all_numbers, max_number),
        total_draws_analyzed |-> Len(results)]

\* calculate_statistics(results, lottery_type)
calculate_statistics(results, lottery_type) ==
    IF results = <<>>
    THEN [hot_numbers |-> <<>>, cold_numbers |-> <<>>, delayed_numbers |-> <<>>,
          range_distribution |-> [low |-> 0, medium |-> 0, high |-> 0],
          total_draws_analyzed |-> 0]
    ELSE LET config == IF lottery_type \in DOMAIN LOTTERY_CONFIG THEN LOTTERY_CONFIG[lottery_type]
                       ELSE [max_number |-> 60]
             max_number == config.max_number
         IN Bind(AllNumbers(results, lottery_type), LAMBDA all_numbers :
               Bind(LastSeenList(results, max_number), LAMBDA last_seen :
                  Bind(Frequency(all_numbers, max_number), LAMBDA frequency :
                     Snapshot(results, max_number, all_numbers, last_seen, frequency))))

(*************************** pattern analyzer ******************************)
\* round(total / n): the quotient is a double that is a half exactly when the
\* fraction is, and Python rounds a half to the even neighbour
RoundHalfEven(total, n) ==
    LET q == total \div n
        r == total % n
    IN IF 2 * r < n THEN q
       ELSE IF 2 * r > n THEN q + 1
       ELSE IF q % 2 = 0 THEN q ELSE q + 1

\* The integers j = mean * 0.85 (mean * 1.15) whose product in double arithmetic
\* falls just below j, so that int() gives j - 1: mean = 20j/17 (20j/23), for
\* every mean up to 400.
FloatShort85 ==
    {7, 14, 25, 28, 31, 45, 50, 55, 56, 59, 62, 73, 83, 90, 100, 107, 110, 112, 115,
     118, 121, 124, 127, 129, 146, 163, 166, 180, 183, 197, 200, 214, 217, 219, 220,
     224, 225, 230, 231, 236, 237, 241, 242, 247, 248, 253, 254, 258, 275, 292, 309,
     326, 332, 343, 349}

FloatShort115 ==
    {1, 2, 4, 5, 8, 10, 11, 15, 16, 19, 20, 21, 22, 29, 30, 31, 32, 37, 38, 39, 40,
     41, 42, 43, 44, 45, 58, 59, 60, 61, 62, 63, 64, 74, 76, 78, 80, 82, 84, 86, 88,
     90, 93, 95, 97, 99, 101, 103, 105, 107, 109, 111, 113, 115, 116, 117, 118, 119,
     120, 121, 122, 124, 126, 128, 139, 141, 143, 145, 147, 148, 149, 152, 153, 156,
     160, 163, 164, 167, 168, 171, 172, 175, 176, 179, 180, 183, 186, 187, 190, 191,
     194, 195, 198, 199, 202, 203, 206, 207, 209, 210, 211, 213, 214, 217, 218, 221,
     222, 225, 226, 229, 230, 232, 233, 234, 236, 237, 238, 240, 241, 242, 244, 245,
     248, 249, 252, 253, 255, 256, 259, 263, 267, 271, 275, 278, 279, 282, 286, 290,
     294, 296, 297, 298, 303, 304, 305, 306, 311, 312, 313, 319, 320, 321, 326, 327,
     328, 329, 334, 335, 336, 337, 342, 343, 344, 349, 350, 351, 352, 357, 358, 359,
     360, 365, 366, 367, 372, 373, 374, 375, 380, 381, 382, 383, 388, 389, 390, 391,
     395, 396, 397, 398, 403, 404, 405, 406, 411, 412, 413, 414, 418, 419, 420, 421,
     422, 426, 427, 428, 429, 434, 435, 436, 437, 441, 442, 443, 444, 445, 449, 450,
     451, 452, 453, 457, 458, 459, 460, 464, 465, 466, 467, 468}

\* int(total / n * percent / 100) as Python computes it in doubles
TruncScaled(total, n, percent, short) ==
    LET exact == (total * percent) \div (n * 100)
    IN IF (total * percent) % (n * 100) = 0 /\ exact \in short THEN exact - 1 ELSE exact

\* mutant: the upper bound is the mean itself, scaled like the lower bound
SumMaxNarrow(total, n) == TruncScaled(total, n, 85, FloatShort85)

\* int(sum(sums) / len(sums) * 0.85) and int(sum(sums) / len(sums) * 1.15)
SumMin(total, n) == TruncScaled(total, n, 85, FloatShort85)
SumMax(total, n) == TruncScaled(total, n, 115, FloatShort115)

\* the sorted numbers of the records of results[:50] that have numbers_to_pick
\* dezenas
Qualifying(results, numbers_to_pick) ==
    LET window == Take(results, 50)
        nums == [i \in DOMAIN window |-> Sorted(Ints(DrawDezenas(window[i])))]
    IN SelectSeq(nums, LAMBDA q : Len(q) = numbers_to_pick)

\* sum(1 for i in range(len(nums) - 1) if nums[i+1] - nums[i] == 1)
Consecutive(nums) == Cardinality({i \in 1..(Len(nums) - 1) : nums[i + 1] - nums[i] = 1})

\* sum(1 for n in nums if n in prev_nums)
Repeats(nums, prev) == Len(SelectSeq(nums, LAMBDA n : n \in Range(prev)))

\* (low, med, high) of one record
RangeCounts(nums, third) ==
    <<Len(SelectSeq(nums, LAMBDA n : n <= third)),
      Len(SelectSeq(nums, LAMBDA n : third < n /\ n <= 2 * third)),
      Len(SelectSeq(nums, LAMBDA n : n > 2 * third))>>

\* analyze_winning_patterns(results, lottery_type).  A key the dict does not have
\* is None; an average kept as a float is the fraction [num, den].
analyze_winning_patterns(results, lottery_type) ==
    LET config == IF lottery_type \in DOMAIN LOTTERY_CONFIG THEN LOTTERY_CONFIG[lottery_type]
                  ELSE [max_number |-> 60, numbers_to_pick |-> 6]
        max_number == config.max_number
        numbers_to_pick == config.numbers_to_pick
        third == max_number \div 3
        q == Qualifying(results, numbers_to_pick)
        n == Len(q)
        even_odd_patterns == [i \in DOMAIN q |-> CountEven(q[i])]
        range_patterns == [i \in DOMAIN q |-> RangeCounts(q[i], third)]
        sum_patterns == [i \in DOMAIN q |-> SumSeq(q[i])]
        consecutive_patterns == [i \in DOMAIN q |-> Consecutive(q[i])]
        repeat_from_last == [i \in 1..(n - 1) |-> Repeats(q[i + 1], q[i])]
        avg_even == RoundHalfEven(SumSeq(even_odd_patterns), n)
    IN IF n = 0
       THEN [optimal_even |-> None, optimal_odd |-> None,
             optimal_sum_min |-> None, optimal_sum_max |-> None,
             avg_consecutive |-> None, optimal_range |-> None, avg_repeats |-> None]
       ELSE [optimal_even |-> Some(avg_even),
             optimal_odd |-> Some(numbers_to_pick - avg_even),
             optimal_sum_min |-> Some(SumMin(SumSeq(sum_patterns), n)),
             optimal_sum_max |-> Some(SumMax(SumSeq(sum_patterns), n)),
             avg_consecutive |-> Some([num |-> SumSeq(consecutive_patterns), den |-> n]),
             optimal_range |->
                 Some(<<RoundHalfEven(SumSeq([i \in DOMAIN q |-> range_patterns[i][1]]), n),
                        RoundHalfEven(SumSeq([i \in DOMAIN q |-> range_patterns[i][2]]), n),
                        RoundHalfEven(SumSeq([i \in DOMAIN q |-> range_patterns[i][3]]), n)>>),
             avg_repeats |->
                 IF n > 1 THEN Some([num |-> SumSeq(repeat_from_last), den |-> n - 1])
                 ELSE None]

(************************ analysing a window of records ********************)
\* numbers_to_pick numbers of the game whose sum is a multiple of 100, highest first
RoundNumbers(lt) ==
    CASE lt = "quina" -> <<30, 25, 20, 15, 10>>
      [] lt = "lotofacil" -> Reverse(Interval(1, 7) \o Interval(18, 25))
      [] OTHER -> <<26, 24, 20, 15, 10, 5>>

\* The records windows are made of: draw 1 as the source gives it, draw 2 as the
\* cache holds it, a draw given highest number first, and a record that lacks
\* one number.
StatRecords(lt) ==
    <<SourceDraw(lt, 1),
      ResultDoc(lt, SourceDraw(lt, 2)),
      [numero |-> 3, listaDezenas |-> Dezenas(RoundNumbers(lt)),
       listaDezenasSegundoSorteio |-> <<>>, listaRateioPremio |-> <<>>],
      [concurso |-> 4, dezenas |-> Dezenas(Tail(SourceNumbers(lt, 1))),
       dezenas_segundo_sorteio |-> None]>>

\* the sequences of at most n records
RECURSIVE RecordSeqs(_, _)
RecordSeqs(lt, n) ==
    IF n = 0 THEN {<<>>}
    ELSE LET shorter == RecordSeqs(lt, n - 1)
         IN shorter \cup {Append(s, r) : s \in shorter, r \in Range(StatRecords(lt))}

\* The windows analysed: every sequence of at most MaxRecords records, and the
\* shorter ones after six copies of one record, so that a number is last seen
\* more than 5 records back.
Windows(lt) ==
    RecordSeqs(lt, MaxRecords)
    \cup {[i \in 1..6 |-> r] \o s :
             r \in Range(StatRecords(lt)), s \in RecordSeqs(lt, MaxRecords - 1) \ {<<>>}}

\* one window of a game is to be analysed
InitStats ==
    /\ bets = <<>>
    /\ draws = [lt \in VALID_LOTTERY_TYPES |-> {}]
    /\ nextId = 1
    /\ pending = <<>>
    /\ last = Response("start", None, <<>>, 0, None, 0, 0)
    /\ \E lottery_type \in VALID_LOTTERY_TYPES :
          \E results \in Windows(lottery_type) :
             gen = [in |-> Some([lottery_type |-> lottery_type, results |-> results]),
                    out |-> None]

\* generate_bets and get_lottery_statistics analyse the assembled records
Analyse ==
    /\ ~IsNone(gen.in) /\ IsNone(gen.out)
    /\ LET inp == TheVal(gen.in)
       IN gen' = [gen EXCEPT !.out =
                     Some([statistics |-> calculate_statistics(inp.results, inp.lottery_type),
                           pattern_analysis |->
                               analyze_winning_patterns(inp.results, inp.lottery_type)])]
    /\ UNCHANGED <<bets, draws, nextId, pending, last>>

NextStats == Analyse

SpecStats == InitStats /\ [][NextStats]_vars

(********************** claims about the analysers *************************)
\* the window analysed, its game and the snapshot made of it
Analysed == ~IsNone(gen.in) /\ ~IsNone(gen.out) /\ "results" \in DOMAIN TheVal(gen.in)
Window0 == TheVal(gen.in).results
Game0 == TheVal(gen.in).lottery_type
Snapshot0 == TheVal(gen.out).statistics

\* how often the number n was drawn in the window (second draws of dupla_sena
\* included)
DrawnIn(result, n) ==
    LET nums == RecordNumbers(result, Game0)
    IN Cardinality({k \in DOMAIN nums : nums[k] = n})

Drawn(n) == SumSeq([i \in DOMAIN Window0 |-> DrawnIn(Window0[i], n)])

\* the cold list of the snapshot is the 15 least drawn numbers of 1..max_number
ColdIsBottom15 ==
    LET cold == Snapshot0.cold_numbers
        listed == {cold[i].number : i \in DOMAIN cold}
    IN /\ Len(cold) = 15
       /\ \A i \in DOMAIN cold :
             cold[i].number \in 1..LOTTERY_CONFIG[Game0].max_number
             /\ cold[i].frequency = Drawn(cold[i].number)
       /\ \A i, j \in DOMAIN cold :
             i < j => \/ cold[i].frequency < cold[j].frequency
                      \/ (cold[i].frequency = cold[j].frequency /\ cold[i].number < cold[j].number)
       /\ \A n \in (1..LOTTERY_CONFIG[Game0].max_number) \ listed :
             \A i \in DOMAIN cold : Drawn(n) >= cold[i].frequency

\* C15 as stated: for every game and every sequence of draw records analysed,
\* cold_numbers has exactly 15 entries, taken over 1..max_number with a never
\* drawn number at frequency 0, in ascending frequency order with equal
\* frequencies in ascending number order, and no number outside the list has a
\* strictly lower frequency than a number inside it.
C15_AsStated == Analysed => ColdIsBottom15

\* C15, amended: the same for every sequence of at least one draw record (of no
\* records the snapshot has an empty cold list).
C15_ColdNumbers ==
    Analysed => IF Window0 = <<>> THEN Snapshot0.cold_numbers = <<>> ELSE ColdIsBottom15

\* C15 witness: the cold list of a window starts with a number never drawn and
\* ends with one that was drawn
C15_Witness ==
    /\ Analysed /\ Window0 # <<>>
    /\ Snapshot0.cold_numbers[1].frequency = 0
    /\ Snapshot0.cold_numbers[15].frequency > 0

\* the place of the first occurrence of n in the records, read in order
FirstAt(n) ==
    LET all == AllNumbers(Window0, Game0)
    IN CHOOSE i \in DOMAIN all : all[i] = n /\ \A j \in 1..(i - 1) : all[j] # n

\* which of two equally frequent numbers a, b comes first: the smaller, or the
\* one that occurs first in the records
Before(a, b, natural) == IF natural THEN a < b ELSE FirstAt(a) < FirstAt(b)

\* hot_numbers is the (at most 15) most drawn of the drawn numbers, in descending
\* frequency order, equally frequent numbers in the order Before gives them,
\* inside the list and at its end
HotIsTop15(natural) ==
    LET hot == Snapshot0.hot_numbers
        listed == {hot[i].number : i \in DOMAIN hot}
        drawn == {n \in 1..LOTTERY_CONFIG[Game0].max_number : Drawn(n) > 0}
    IN /\ Len(hot) = Min(15, Cardinality(drawn))
       /\ \A i \in DOMAIN hot :
             hot[i].number \in drawn /\ hot[i].frequency = Drawn(hot[i].number)
       /\ \A i, j \in DOMAIN hot :
             i < j => \/ hot[i].frequency > hot[j].frequency
                      \/ (hot[i].frequency = hot[j].frequency
                          /\ Before(hot[i].number, hot[j].number, natural))
       /\ \A n \in drawn \ listed :
             \A i \in DOMAIN hot :
                \/ Drawn(n) < hot[i].frequency
                \/ (Drawn(n) = hot[i].frequency /\ Before(hot[i].number, n, natural))

\* C16 as stated: hot_numbers is the (at most 15) drawn numbers of highest
\* frequency in descending frequency order, and of equally frequent numbers the
\* smaller comes first, inside the list and at the cut at position 15, whatever
\* the order in which the numbers occur in the records.
C16_AsStated == Analysed => HotIsTop15(TRUE)

\* C16, amended: the same, except that of equally frequent numbers the one that
\* occurs first in the records (read in the order given, each record's numbers in
\* the order given) comes first.
C16_HotNumbers == Analysed => HotIsTop15(FALSE)

\* C16 witness: more than 15 numbers were drawn and the list holds a number
\* before a smaller one of the same frequency
C16_Witness ==
    /\ Analysed
    /\ Len(Snapshot0.hot_numbers) = 15
    /\ Cardinality({n \in 1..LOTTERY_CONFIG[Game0].max_number : Drawn(n) > 0}) > 15
    /\ \E i, j \in DOMAIN Snapshot0.hot_numbers :
          /\ i < j
          /\ Snapshot0.hot_numbers[i].frequency = Snapshot0.hot_numbers[j].frequency
          /\ Snapshot0.hot_numbers[i].number > Snapshot0.hot_numbers[j].number

\* the records of the window whose (first) drawn numbers hold n, counted from 0
SeenAt(n) == {i - 1 : i \in {k \in DOMAIN Window0 : n \in Range(Ints(DrawDezenas(Window0[k])))}}

Profile0 == TheVal(gen.out).pattern_analysis

\* the sums of the drawn numbers of the records, among the first 50 of the
\* window, that have exactly numbers_to_pick drawn numbers
QualifyingSums ==
    LET first == SubSeq(Window0, 1, Min(Len(Window0), 50))
        drawn == [i \in DOMAIN first |-> Ints(DrawDezenas(first[i]))]
        whole == SelectSeq(drawn, LAMBDA d : Len(d) = LOTTERY_CONFIG[Game0].numbers_to_pick)
    IN [i \in DOMAIN whole |-> SumSeq(whole[i])]

\* bound is total / n * percent / 100 truncated to an integer; a product that is
\* an integer may be computed just below it and lose one
TruncatedAt(bound, total, n, percent) ==
    /\ bound * 100 * n <= total * percent
    /\ total * percent <= (bound + 1) * 100 * n

\* C18: when at least one of the first 50 records has exactly numbers_to_pick
\* drawn numbers, the profile has optimal_sum_min and optimal_sum_max, they are
\* the mean of the qualifying records' sums times 0.85 and times 1.15 truncated
\* to integers, and optimal_sum_min <= mean <= optimal_sum_max; when no record
\* qualifies, the sum, even/odd and range fields are absent.
C18_SumRange ==
    Analysed =>
       LET n == Len(QualifyingSums)
           total == SumSeq(QualifyingSums)
       IN IF n > 0
          THEN /\ ~IsNone(Profile0.optimal_sum_min) /\ ~IsNone(Profile0.optimal_sum_max)
               /\ TheVal(Profile0.optimal_sum_min) * n <= total
               /\ total <= TheVal(Profile0.optimal_sum_max) * n
               /\ TruncatedAt(TheVal(Profile0.optimal_sum_min), total, n, 85)
               /\ TruncatedAt(TheVal(Profile0.optimal_sum_max), total, n, 115)
          ELSE /\ IsNone(Profile0.optimal_sum_min) /\ IsNone(Profile0.optimal_sum_max)
               /\ IsNone(Profile0.optimal_even) /\ IsNone(Profile0.optimal_odd)
               /\ IsNone(Profile0.optimal_range)

\* C18 witness: of three records two qualify, with different sums, and the third
\* does not
C18_Witness ==
    /\ Analysed
    /\ Len(Window0) = 3
    /\ Len(QualifyingSums) = 2
    /\ QualifyingSums[1] # QualifyingSums[2]
    /\ TheVal(Profile0.optimal_sum_min) * 2 < SumSeq(QualifyingSums)
    /\ SumSeq(QualifyingSums) < TheVal(Profile0.optimal_sum_max) * 2

\* records were analysed and none qualified
C18_WitnessNone ==
    /\ Analysed
    /\ Window0 # <<>>
    /\ QualifyingSums = <<>>
    /\ IsNone(Profile0.optimal_sum_min)

\* the mean is 100 and its product with 1.15 is truncated to 114
C18_WitnessFloat ==
    /\ Analysed
    /\ Len(QualifyingSums) >= 1
    /\ SumSeq(QualifyingSums) = 100 * Len(QualifyingSums)
    /\ Profile0.optimal_sum_min = Some(85)
    /\ Profile0.optimal_sum_max = Some(114)

(******************** the validation of one candidate **********************)
\* the numbers candidates are made of: low and high, even and odd
CandidatePool == <<1, 2, 3, 4, 5, 10, 20, 21, 50, 51, 60>>

\* the ascending lists of n numbers of the pool from position from on
RECURSIVE PoolLists(_, _)
PoolLists(from, n) ==
    IF n = 0 THEN {<<>>}
    ELSE UNION {{<<CandidatePool[i]>> \o rest : rest \in PoolLists(i + 1, n - 1)} :
                i \in from..Len(CandidatePool)}

\* candidates of a game: of numbers_to_pick numbers, and some of one less and
\* of one more
CandidateLists(lottery_type) ==
    LET N == LOTTERY_CONFIG[lottery_type].numbers_to_pick
    IN PoolLists(1, N)
       \cup {Interval(1, N - 1), Interval(1, N + 1),
             <<3, 10, 20, 50>>, <<1, 3, 10, 20, 21, 50>>}

\* profiles as validate_bet reads them: with or without an even target, with or
\* without the sum targets of draws whose mean sum is 100
ValidationProfiles ==
    {[optimal_even |-> even, optimal_sum_min |-> sums[1], optimal_sum_max |-> sums[2],
      optimal_range |-> None] :
         even \in {None, Some(0), Some(2), Some(3), Some(5)},
         sums \in {<<None, None>>, <<Some(85), Some(114)>>}}

\* one candidate is to be validated within a call of generate_smart_bet
InitValidate ==
    /\ bets = <<>>
    /\ draws = [lt \in VALID_LOTTERY_TYPES |-> {}]
    /\ nextId = 1
    /\ pending = <<>>
    /\ last = Response("start", None, <<>>, 0, None, 0, 0)
    /\ \E pattern_analysis \in ValidationProfiles, nums \in CandidateLists("quina") :
          gen = [in |-> Some([lottery_type |-> "quina", pattern_analysis |-> pattern_analysis,
                              nums |-> nums]),
                 out |-> None]

\* validate_bet(nums) is called
Validate ==
    /\ ~IsNone(gen.in) /\ IsNone(gen.out)
    /\ LET inp == TheVal(gen.in)
           c == GenContext([hot_numbers |-> <<>>, cold_numbers |-> <<>>, delayed_numbers |-> <<>>],
                           inp.lottery_type, inp.pattern_analysis, [i \in 1..TapeLen |-> 0])
       IN gen' = [gen EXCEPT !.out = Some(validate_bet(c, inp.nums))]
    /\ UNCHANGED <<bets, draws, nextId, pending, last>>

NextValidate == Validate

SpecValidate == InitValidate /\ [][NextValidate]_vars

(***************************** claim C19 ***********************************)
\* a candidate was validated
Validated == ~IsNone(gen.in) /\ ~IsNone(gen.out) /\ "nums" \in DOMAIN TheVal(gen.in)

Nums0 == TheVal(gen.in).nums
Targets0 == TheVal(gen.in).pattern_analysis
Pick0 == LOTTERY_CONFIG[TheVal(gen.in).lottery_type].numbers_to_pick
Evens0 == Cardinality({i \in DOMAIN Nums0 : Nums0[i] % 2 = 0})

\* the profile has both sum targets
HasSumTarget == ~IsNone(Targets0.optimal_sum_min) /\ ~IsNone(Targets0.optimal_sum_max)

\* sum_min * 0.8 <= total <= sum_max * percent / 100
SumWithin(percent) ==
    /\ 10 * SumSeq(Nums0) >= 8 * TheVal(Targets0.optimal_sum_min)
    /\ 100 * SumSeq(Nums0) <= percent * TheVal(Targets0.optimal_sum_max)

\* the even count is within 2 of target
EvenWithin(target) == Abs(Evens0 - target) <= 2

C19_WitnessEven ==
    /\ Validated
    /\ Len(Nums0) = Pick0
    /\ IsNone(Targets0.optimal_even) /\ ~HasSumTarget
    /\ Evens0 = Pick0
    /\ ~TheVal(gen.out)

\* candidates are rejected for their size, for a sum below and for a sum above
C19_WitnessSize == Validated /\ Len(Nums0) = Pick0 + 1 /\ ~TheVal(gen.out)
C19_WitnessLow ==
    /\ Validated /\ Len(Nums0) = Pick0 /\ HasSumTarget
    /\ 10 * SumSeq(Nums0) = 8 * TheVal(Targets0.optimal_sum_min) - 10
    /\ EvenWithin(Pick0 \div 2) /\ ~TheVal(gen.out)
C19_WitnessHigh ==
    /\ Validated /\ Len(Nums0) = Pick0 /\ HasSumTarget
    /\ SumSeq(Nums0) = 137
    /\ Targets0.optimal_even = Some(3) /\ EvenWithin(3) /\ ~TheVal(gen.out)

(************************ the batch of generate_bets ************************)
\* count: int = Query(1, ge=1, le=10)
COUNT_MIN == 1
COUNT_MAX == 10

\* rounds after which the while loop is given up as not ending
LOOP_FUEL == COUNT_MAX * 5 + 1

\* mutant: no bet is taken for a duplicate
never_duplicate(batch, bet) == FALSE

\* any(get_bet_hash(b.lottery_type, b.numbers) == bet_hash for b in bets)
is_duplicate(batch, bet) ==
    \E i \in DOMAIN batch :
        get_bet_hash(batch[i].lottery_type, batch[i].numbers)
            = get_bet_hash(bet.lottery_type, bet.numbers)

\* while len(bets) < count and attempts < max_attempts
Looping(count, s) == ~s.raised /\ Len(s.bets) < count /\ s.attempts < count * 5

\* one round of the while loop; the generator reads the random values of the
\* tape that order gives for this call
BatchRound(statistics, lottery_type, strategy, pattern_analysis, order, s) ==
    Bind(generate_smart_bet(statistics, lottery_type, strategy, pattern_analysis,
                            order[(s.attempts % Len(order)) + 1]), LAMBDA bet :
        IF bet.raised THEN [s EXCEPT !.raised = TRUE]
        ELSE [bets |-> IF is_duplicate(s.bets, bet) THEN s.bets ELSE Append(s.bets, bet),
              attempts |-> s.attempts + 1,
              raised |-> FALSE])

\* bets = [], attempts = 0 and the while loop
Batch(statistics, lottery_type, strategy, pattern_analysis, count, order) ==
    Repeat(LAMBDA s : IF Looping(count, s)
                      THEN BatchRound(statistics, lottery_type, strategy, pattern_analysis,
                                      order, s)
                      ELSE s,
           LOOP_FUEL, [bets |-> <<>>, attempts |-> 0, raised |-> FALSE])

\* generate_bets past its validation: the history is assembled, analysed twice,
\* and the batch is generated; calls counts the calls of generate_smart_bet
BatchOf(store, lottery_type, strategy, count, latest, fails, order) ==
    Bind(fetch_multiple_results(store, lottery_type, STATS_COUNT, latest, fails), LAMBDA got :
    Bind(calculate_statistics(got.results, lottery_type), LAMBDA statistics :
    Bind(analyze_winning_patterns(got.results, lottery_type), LAMBDA pattern_analysis :
    Bind(Batch(statistics, lottery_type, strategy, pattern_analysis, count, order), LAMBDA s :
        [store |-> got.store, src |-> got.src, db |-> got.db,
         status |-> IF s.raised \/ Looping(count, s) THEN 500 ELSE 200,
         body |-> [data |-> s.bets, calls |-> s.attempts,
                   records |-> got.results, asked |-> got.fetched]]))))

\* the sequences of tapes the calls of one batch read: constant tapes
BatchTapes == {[i \in 1..TapeLen |-> v] : v \in 0..(Levels - 1)}
TapeOrders == [1..TapeLen -> BatchTapes]

\* what the source answers during one batch: nothing, or every draw it knows
BatchOutcomes(lt) ==
    {[latest |-> None, fails |-> {}],
     [latest |-> Some(SourceDraw(lt, MaxConcurso)), fails |-> {}]}

\* one generate_bets request is to be served
InitBatch ==
    /\ bets = <<>>
    /\ draws = [lt \in VALID_LOTTERY_TYPES |-> {}]
    /\ nextId = 1
    /\ pending = <<>>
    /\ last = Response("start", None, <<>>, 0, None, 0, 0)
    /\ \E lottery_type \in {"quina", "invalid"}, strategy \in {"smart", "hot", "invalid"},
          count \in 0..MaxCount, order \in TapeOrders :
          \E o \in BatchOutcomes(IF IsValidGame(lottery_type) THEN lottery_type ELSE "quina") :
             gen = [in |-> Some([lottery_type |-> lottery_type, strategy |-> strategy,
                                 count |-> count, latest |-> o.latest, fails |-> o.fails,
                                 order |-> order]),
                    out |-> None]

\* generate_bets(lottery_type, strategy, count), the batch included
GenerateBetsBatch ==
    /\ ~IsNone(gen.in) /\ IsNone(gen.out)
    /\ LET inp == TheVal(gen.in)
           arg == [strategy |-> inp.strategy, count |-> inp.count]
       IN IF inp.count < COUNT_MIN \/ inp.count > COUNT_MAX
          THEN /\ last' = Response("generate_bets", Some(inp.lottery_type), arg, 422, None, 0, 0)
               /\ UNCHANGED draws
          ELSE IF ~IsValidGame(inp.lottery_type) \/ ~IsValidStrategy(inp.strategy)
          THEN /\ last' = Response("generate_bets", Some(inp.lottery_type), arg, 400, None, 0, 0)
               /\ UNCHANGED draws
          ELSE \E out \in {BatchOf(draws, inp.lottery_type, inp.strategy, inp.count,
                                   inp.latest, inp.fails, inp.order)} :
                  /\ draws' = out.store
                  /\ last' = Response("generate_bets", Some(inp.lottery_type), arg, out.status,
                                      Some(out.body), out.src, out.db)
    /\ gen' = [gen EXCEPT !.out = Some(last'.status)]
    /\ UNCHANGED <<bets, nextId, pending>>

NextBatch == GenerateBetsBatch

SpecBatch == InitBatch /\ [][NextBatch]_vars

(***************************** claim C20 ***********************************)
\* a generate_bets request that passed its validation was served
BatchServed ==
    /\ ~IsNone(gen.in) /\ ~IsNone(gen.out) /\ "order" \in DOMAIN TheVal(gen.in)
    /\ last.status \notin {400, 422}

Request0 == TheVal(gen.in)
Data0 == TheVal(last.body).data
Calls0 == TheVal(last.body).calls

\* the number set of the bet the k-th call of the generator made
CallSet(k) ==
    LET records == TheVal(last.body).records
        made == generate_smart_bet(calculate_statistics(records, Request0.lottery_type),
                                   Request0.lottery_type, Request0.strategy,
                                   analyze_winning_patterns(records, Request0.lottery_type),
                                   Request0.order[((k - 1) % Len(Request0.order)) + 1])
    IN Range(made.numbers)

\* the number sets of the calls made, in order
CallSets == [k \in 1..Calls0 |-> CallSet(k)] \o <<>>

\* the calls whose number set no earlier call made
FirstCalls(sets) == {k \in DOMAIN sets : \A j \in 1..(k - 1) : sets[j] # sets[k]}

\* C20: generate-bets(game, strategy, count) ends after at most count * 5 calls
\* of the bet generator and returns at most count bets, no two with the same
\* number set; the bets returned are the generated candidates less those whose
\* number set an earlier candidate of the batch had, every candidate counts as
\* an attempt, and fewer than count bets are returned only after count * 5
\* attempts.
C20_Batch ==
    BatchServed =>
       /\ last.status = 200
       /\ Calls0 <= Request0.count * 5
       /\ Len(Data0) <= Request0.count
       /\ \A i, j \in DOMAIN Data0 :
             Range(Data0[i].numbers) = Range(Data0[j].numbers) => i = j
       /\ \E sets \in {CallSets} :
             /\ Len(Data0) = Cardinality(FirstCalls(sets))
             /\ \A i \in DOMAIN Data0 :
                   \E k \in FirstCalls(sets) :
                      /\ sets[k] = Range(Data0[i].numbers)
                      /\ Cardinality({j \in FirstCalls(sets) : j <= k}) = i
             /\ Len(Data0) = Request0.count => Calls0 \in FirstCalls(sets)
       /\ Len(Data0) < Request0.count => Calls0 = Request0.count * 5

\* C20 witness: two bets were asked for, every candidate after the first had its
\* number set, and one bet is returned after ten attempts
C20_Witness ==
    /\ BatchServed
    /\ Request0.count = 2
    /\ Len(Data0) = 1
    /\ Calls0 = 10

\* two bets were asked for and the first two candidates are returned
C20_WitnessFull ==
    /\ BatchServed
    /\ Request0.count = 2
    /\ Len(Data0) = 2
    /\ Calls0 = 2

(***************** checking one bet alone and in a batch *******************)
\* check_all_bets(lottery_type) on the one stored bet, against any window draw
CheckAllWindow(lottery_type) ==
    LET ids == {bets[i].id : i \in {j \in DOMAIN bets : MatchesUnchecked(bets[j], lottery_type)}}
    IN \E fetched \in [ids -> WindowOutcomes(GameOfBet(bets, 1))] :
          CheckAllBets(lottery_type, fetched)

NextCheckBoth ==
    \/ NextCheck
    \/ \E lottery_type \in {None} \cup {Some(lt) : lt \in VALID_LOTTERY_TYPES} :
          CheckAllWindow(lottery_type)

SpecCheckBoth == InitCheck /\ [][NextCheckBoth]_vars

(***************************** claim C21 ***********************************)
\* what both endpoints store of a check
Verdict(result) ==
    [matches |-> result.matches, match_count |-> result.match_count,
     is_winner |-> result.is_winner, prize_tier |-> result.prize_tier]

\* C21: for every bet check-all-bets checks, the matches, match_count, is_winner
\* and prize_tier it stores on the bet equal those check-bet (with no draw
\* number) stores for the same bet against the same draw, for all four games.
C21_CheckAllAsCheckBet ==
    [][last'.op = "check_all_bets" =>
         \A i \in CheckAllTargets(bets, last'.game, last'.arg.fetched) :
            Verdict(TheVal(bets'[i].result))
               = Verdict(CheckBetResult(bets[i], TheVal(last'.arg.fetched[bets[i].id])))]_vars

(***************************** claim C22 ***********************************)
\* the number n occurs in one of the 6 most recent records of the window, the
\* second draw set of dupla_sena included
InRecent(n) ==
    \E i \in 1..Min(6, Len(Window0)) : n \in Range(RecordNumbers(Window0[i], Game0))

\* C22: a number is eligible for delayed_numbers iff it occurs in none of the 6
\* most recent analysed records; every listed number is eligible, and all
\* eligible numbers are listed when the list is shorter than 15; a number
\* reported as never seen has frequency 0 (it occurs nowhere in the window,
\* second draw sets included, and any hot or cold entry of it says 0).
C22_DelayedEligible ==
    Analysed =>
       LET delayed == Snapshot0.delayed_numbers
           listed == {delayed[i].number : i \in DOMAIN delayed}
           counted == Snapshot0.hot_numbers \o Snapshot0.cold_numbers
           eligible == {n \in 1..LOTTERY_CONFIG[Game0].max_number : ~InRecent(n)}
       IN Window0 # <<>> =>
          /\ listed \subseteq eligible
          /\ Len(delayed) < 15 => listed = eligible
          /\ \A i \in DOMAIN delayed :
                IsNone(delayed[i].draws_since) =>
                   /\ Drawn(delayed[i].number) = 0
                   /\ \A k \in DOMAIN counted :
                         counted[k].number = delayed[i].number => counted[k].frequency = 0

(***************************** claim C25 ***********************************)
\* C25: for every game and every non-empty sequence of draw records, each entry
\* of hot_numbers and cold_numbers has frequency <= total_draws_analyzed (so its
\* percentage, frequency / total_draws_analyzed * 100, is at most 100).
C25_FrequencyWithinDraws ==
    Analysed =>
       LET counted == Snapshot0.hot_numbers \o Snapshot0.cold_numbers
       IN Window0 # <<>> =>
             \A k \in DOMAIN counted :
                /\ counted[k].frequency >= 0
                /\ counted[k].frequency <= Snapshot0.total_draws_analyzed

(******************* saves with any list of integers ***********************)
\* BetCreate payloads as the model class admits them: numbers is any list of
\* integers.  One list is a quina bet; the others are too short, hold a number
\* twice, or hold a number outside 1..80.
PayloadRequests ==
    {[lottery_type |-> "quina", numbers |-> numbers] :
        numbers \in {<<45, 5, 35, 15, 25>>, <<5, 15>>, <<5, 5, 15, 25, 35>>,
                     <<5, 15, 25, 35, 90>>, <<0, 5, 15, 25, 35>>}}

NextPayload ==
    \/ pending = <<>> /\ LedgerRequest(PayloadRequests, {None, Some("quina")})
    \/ \E i \in DOMAIN pending : SaveInsert(i)

SpecPayload == Init /\ [][NextPayload]_vars

(***************************** claim C23 ***********************************)
\* C23: every stored bet has numbers sorted ascending, pairwise distinct,
\* numbers_to_pick of its game in count and within [1, max_number]; a save
\* request whose numbers, put in order, are not so is answered with a
\* validation error (and so stores nothing).
C23_StoredBetsWellFormed ==
    /\ \A i \in DOMAIN bets : ValidShape(bets[i].lottery_type, bets[i].numbers)
    /\ (/\ last.op = "save_bet"
        /\ IsValidGame(last.arg.lottery_type)
        /\ ~ValidShape(last.arg.lottery_type, Sorted(last.arg.numbers)))
       => last.status \in {400, 422}

(***************************** claim C24 ***********************************)
\* the request served last was a successful check of the stored bet b
CheckedNow(b) ==
    /\ last'.status = 200
    /\ \/ /\ last'.op = "check_bet"
          /\ last'.arg.bet_id = b.id
          /\ ~IsNone(last'.arg.fetched)
       \/ /\ last'.op = "check_all_bets"
          /\ Truthy(last'.game) => b.lottery_type = TheVal(last'.game)
          /\ b.id \in DOMAIN last'.arg.fetched
          /\ ~IsNone(last'.arg.fetched[b.id])

\* C24: in every reachable state of the bet store a stored bet has checked =
\* true iff its result is present; a checked bet is never unchecked again while
\* it remains stored; and checked changes only through a successful check of
\* that bet.
C24_CheckedIffResult ==
    [][/\ \A i \in DOMAIN bets' : bets'[i].checked <=> ~IsNone(bets'[i].result)
       /\ \A i \in DOMAIN bets : \A j \in DOMAIN bets' :
             bets[i].id = bets'[j].id =>
                /\ bets[i].checked => bets'[j].checked
                /\ bets[i].checked # bets'[j].checked => CheckedNow(bets[i])]_vars

\* C24 witness: of two stored bets one was checked by the request served last
\* and has its result, the other is unchecked and has none
C24_Witness ==
    /\ last.op = "check_bet" /\ last.status = 200
    /\ Len(bets) = 2
    /\ \E i, j \in DOMAIN bets :
          /\ bets[i].id = last.arg.bet_id
          /\ bets[i].checked /\ ~IsNone(bets[i].result)
          /\ ~bets[j].checked /\ IsNone(bets[j].result)

(******************* the range-targeted generator alone ********************)
\* the even counts a draw of the game can have, and so the values of
\* optimal_even a Pattern Profile of the game can give
EvenCounts(lottery_type) ==
    LET M == LOTTERY_CONFIG[lottery_type].max_number
        N == LOTTERY_CONFIG[lottery_type].numbers_to_pick
    IN Max(0, N - (M - M \div 2))..Min(N, M \div 2)

\* the profiles of a game with every optimal_even, and no profile
EvenProfiles(lottery_type, ranges) ==
    LET M == LOTTERY_CONFIG[lottery_type].max_number
        N == LOTTERY_CONFIG[lottery_type].numbers_to_pick
    IN {NoProfile}
       \cup {Profile(even, (N * (M + 1)) \div 2, range) :
                even \in EvenCounts(lottery_type), range \in ranges}

\* generate_with_patterns is to be called once, within generate_smart_bet as
\* entered with any profile; or the smart or the balanced strategy is to be run
InitPatterns ==
    /\ bets = <<>>
    /\ draws = [lt \in VALID_LOTTERY_TYPES |-> {}]
    /\ nextId = 1
    /\ pending = <<>>
    /\ last = Response("start", None, <<>>, 0, None, 0, 0)
    /\ \E lottery_type \in VALID_LOTTERY_TYPES, tape \in Tapes,
          call \in {"generate_with_patterns", "smart", "balanced"} :
          LET t == RangeTargets(lottery_type)
              whole == call = "generate_with_patterns"
          IN \E statistics \in IF whole THEN Snapshots(lottery_type)
                               ELSE {s \in Snapshots(lottery_type) : Len(s.delayed_numbers) = 9},
                pattern_analysis \in
                    EvenProfiles(lottery_type,
                                 IF whole THEN {t.exact, t.over, t.under} ELSE {t.exact}) :
                gen = [in |-> Some([call |-> call, statistics |-> statistics,
                                    lottery_type |-> lottery_type,
                                    pattern_analysis |-> pattern_analysis, tape |-> tape]),
                       out |-> None]

\* the call is made; of a strategy's bet the numbers are kept
CallPatterns ==
    /\ ~IsNone(gen.in) /\ IsNone(gen.out)
    /\ LET inp == TheVal(gen.in)
       IN gen' = [gen EXCEPT !.out = Some(
              IF inp.call = "generate_with_patterns"
              THEN generate_with_patterns(
                       GenContext(inp.statistics, inp.lottery_type, inp.pattern_analysis,
                                  inp.tape), 0)
              ELSE Bind(generate_smart_bet(inp.statistics, inp.lottery_type, inp.call,
                                           inp.pattern_analysis, inp.tape),
                        LAMBDA bet : [val |-> bet.numbers,
                                      pos |-> IF bet.raised THEN -1 ELSE 0]))]
    /\ UNCHANGED <<bets, draws, nextId, pending, last>>

NextPatterns == CallPatterns

SpecPatterns == InitPatterns /\ [][NextPatterns]_vars

(***************************** claim C26 ***********************************)
\* a call of the range-targeted generator, or a strategy that uses it, was made
PatternsCalled ==
    ~IsNone(gen.in) /\ ~IsNone(gen.out) /\ "call" \in DOMAIN TheVal(gen.in)

Call0 == TheVal(gen.in)
Made0 == TheVal(gen.out)
Context0 == GenContext(Call0.statistics, Call0.lottery_type, Call0.pattern_analysis, Call0.tape)

\* the optimal even count the generator aims at
EvenTarget ==
    IF IsNone(Call0.pattern_analysis.optimal_even)
    THEN LOTTERY_CONFIG[Call0.lottery_type].numbers_to_pick \div 2
    ELSE TheVal(Call0.pattern_analysis.optimal_even)

\* how far the even count of nums is from the target
EvenGap(nums) == Abs(Cardinality({i \in DOMAIN nums : nums[i] % 2 = 0}) - EvenTarget)

\* numbers_to_pick distinct numbers of the game's range
WholeBet(nums) ==
    /\ Len(nums) = LOTTERY_CONFIG[Call0.lottery_type].numbers_to_pick
    /\ Cardinality(Range(nums)) = Len(nums)
    /\ Range(nums) \subseteq 1..LOTTERY_CONFIG[Call0.lottery_type].max_number

\* result as the generator holds it when the balancing starts
PicksBeforeBalance ==
    LET c == Context0
        given == ~IsNone(c.optimal_range)
        third_of == c.numbers_to_pick \div 3
        target_low == IF given THEN TheVal(c.optimal_range)[1] ELSE third_of
        target_mid0 == IF given THEN TheVal(c.optimal_range)[2] ELSE third_of
        target_high == IF given THEN TheVal(c.optimal_range)[3] ELSE third_of
        remainder == c.numbers_to_pick - target_low - target_mid0 - target_high
        target_mid == IF remainder > 0 THEN target_mid0 + remainder ELSE target_mid0
    IN Bind(SelectFromRange(c, [val |-> <<>>, pos |-> 0], c.low_range, target_low), LAMBDA low :
       Bind(SelectFromRange(c, low, c.mid_range, target_mid), LAMBDA mid :
       Bind(SelectFromRange(c, mid, c.high_range, target_high), LAMBDA high :
       Bind(FillPreferHot(c, high), LAMBDA filled : SortedPicks(c, filled)))))

\* result after each of the first n rounds of the balancing, from r on
RECURSIVE BalanceRounds(_, _, _)
BalanceRounds(c, r, n) ==
    IF n = 0 THEN <<r>>
    ELSE <<r>> \o Bind(BalanceStep(c, r), LAMBDA next : BalanceRounds(c, next, n - 1))

\* C26: for each game, every optimal even count a profile of the game can give
\* (or numbers_to_pick // 2 without a profile) and every outcome of the random
\* choices, generate_with_patterns returns numbers_to_pick distinct in-range
\* numbers whose even count is within 1 of the optimal one; every round of the
\* balancing keeps the size and the distinctness and, while the even count is
\* more than 1 off, moves it one step towards the target; and the bet of the
\* smart or balanced strategy is within the 2 that validate_bet allows.
C26_PatternsBalanced ==
    PatternsCalled =>
       /\ Made0.pos >= 0
       /\ WholeBet(Made0.val)
       /\ IF Call0.call = "generate_with_patterns"
          THEN /\ EvenGap(Made0.val) <= 1
               /\ \E rounds \in {BalanceRounds(Context0, PicksBeforeBalance, 10)} :
                     /\ \A k \in DOMAIN rounds : rounds[k].pos >= 0 /\ WholeBet(rounds[k].val)
                     /\ \A k \in 1..10 :
                           EvenGap(rounds[k + 1].val) =
                              IF EvenGap(rounds[k].val) > 1 THEN EvenGap(rounds[k].val) - 1
                              ELSE EvenGap(rounds[k].val)
                     /\ Range(rounds[11].val) = Range(Made0.val)
          ELSE EvenGap(Made0.val) <= 2

\* C26 witness: the picks were 3 or more off the optimal even count and the
\* numbers returned are within 1 of it
C26_Witness ==
    /\ PatternsCalled
    /\ Call0.call = "generate_with_patterns"
    /\ EvenGap(PicksBeforeBalance.val) >= 3
    /\ EvenGap(Made0.val) <= 1
    /\ WholeBet(Made0.val)

\* a lotofacil call had to swap towards more and towards fewer even numbers
C26_WitnessLotofacil ==
    /\ PatternsCalled
    /\ Call0.call = "generate_with_patterns" /\ Call0.lottery_type = "lotofacil"
    /\ EvenGap(PicksBeforeBalance.val) >= 4
    /\ EvenGap(Made0.val) = 1

\* the smart strategy returned a bet for a profile with the lowest even count
C26_WitnessSmart ==
    /\ PatternsCalled
    /\ Call0.call = "smart"
    /\ EvenTarget = 0
    /\ EvenGap(Made0.val) <= 1

====
